---- MODULE Spec2Model ----
(***************************************************************************)
(* Model of the PostgreSQL batch export activity                           *)
(* (posthog/temporal/batch_exports/postgres_batch_export.py):              *)
(* insert_into_postgres_activity, PostgreSQLConsumer.flush and the         *)
(* PostgreSQLClient operations managed_table, copy_tsv_to_postgres and     *)
(* amerge_mutable_tables, over the attempts of one export window.          *)
(***************************************************************************)
EXTENDS Integers, Sequences, FiniteSets, Bags, TLC

\* ------------------------------------------------------------------------
\* Bounds of the model
\* ------------------------------------------------------------------------
\* Number of sub-ranges (one record batch each) the export window holds.
NRanges == 2
\* Number of attempts the orchestrator makes for one window.
MaxAttempts == 2
\* Largest value of a version column (person_version, end_timestamp, ...).
MaxVersion == 2

Ranges == 1..NRanges
Versions == 1..MaxVersion
\* distinct_id / session_id values of the rows of the window.
Ids == {"user-a", "user-b"}
Models == {"none", "events", "persons", "sessions"}

VARIABLES
    model,        \* inputs.batch_export_model.name ("none": no model given)
    source,       \* the source rows of the window, one batch per sub-range
    final0,       \* content of the final table before the first attempt
    finalExists,  \* the destination table exists in PostgreSQL
    finalUnique,  \* columns of the unique index of the final table (<<>>: none)
    final,        \* rows of the final table (a bag)
    stageExists,  \* the staging table exists in PostgreSQL
    stage,        \* rows of the staging table (a bag)
    attempt,      \* number of the current attempt of the activity
    pc,           \* position of insert_into_postgres_activity
    cpc,          \* position of the consumer task run by run_consumer
    error,        \* exception propagating out of the activity ("none")
    details,      \* the PostgreSQLHeartbeatDetails object of the attempt
    heartbeat,    \* the details last handed to the orchestrator
    todo,         \* sub-ranges the producer still has to yield, ascending
    buffer,       \* sub-ranges written to the spill file since the last flush
    stageEntered, \* the managed_table scope of the staging table was entered
    mergeCalls,   \* calls of amerge_mutable_tables in this attempt
    dropCalls,    \* tables adelete_table was called for in this attempt
    dropFailed,   \* tables whose DROP TABLE raised in this attempt
    copied,       \* sub-ranges whose COPY has committed (history)
    merged,       \* sub-ranges whose rows a committed merge has read (history)
    flushStart,   \* details as they were when the current flush began (history)
    maxMerged,    \* per id, largest version merged so far (history)
    finalBefore,  \* content of the final table before the last merge (history)
    conn,         \* PostgreSQLClient._connection: "none", "open" or "closed"
    connectTries, \* connection attempts made by the current connect()
    connectError, \* what the last connection attempt raised ("none")
    call,         \* the client operation a caller has under way, or made last
    table_name,   \* inputs.table_name, a sequence of characters
    data_interval_end, \* inputs.data_interval_end, the end of the window
    team_id,      \* inputs.team_id
    stagle_table_name, \* the staging identifier the activity computed
    data,         \* the bytes of one chunk read from the TSV file
    sanitized,    \* what remove_invalid_json returned for the chunk
    tsv_position, \* the position of tsv_file, in bytes from its start
    copy_stream,  \* the bytes written to the COPY so far
    record_schema, \* the fields (name, type) of a PyArrow schema
    pg_schema,    \* what get_postgres_fields_from_record_schema did with it
    columns,      \* the names of the columns of the destination table ({}: no table)
    selectable,   \* the user of the connection may SELECT from the destination table
    introspection, \* how aget_table_columns ended in this attempt ("none": not called)
    schema_columns, \* the names of the activity's table_fields
    used,         \* the field lists handed on in this attempt, each with its use
    queue,        \* the record batches in the RecordBatchQueue, oldest first
    batches,      \* the record batches the producer has still to put
    put,          \* the record batches the producer has put (history)
    taken,        \* the record batches the consumer has got (history)
    run_id,       \* the run id the workflow got from start_batch_export_run
    insert_inputs, \* the inputs insert_into_postgres_activity was executed with
    legacy_metrics, \* the list convert_legacy_metric was called with, as it is now
    original_metrics, \* the same list as it was at the call
    new_structure, \* the list convert_legacy_metric builds
    index,        \* how many legacy metrics the loop has gone through
    runs,         \* two runs of the activity on one destination, each with its inputs and position
    stage_tables, \* the staging tables of the destination and the runs whose rows each holds
    teams,        \* the teams of the database, by primary key, each with its two secret tokens
    teams_at_start, \* the teams as they were when the backfill was called
    batch_size,   \* the argument of backfill_secret_api_tokens_in_batches
    last_pk,      \* the primary key of the last team of the last batch
    batch,        \* the primary keys of the teams of the batch, in order
    saves,        \* the calls of team.save, in order, each with its transaction (history)
    transactions, \* the number of transactions begun
    savepoint,    \* the teams as they were when the open transaction began
    worker,       \* the Temporal worker: running, shutting_down (shutdown requested) or shut_down
    ready,        \* the callbacks the event loop has still to run, oldest first
    tasks,        \* the shutdown tasks the signal handler created, each with its state
    shutdown_task, \* the task the variable shutdown_task holds (0: None)
    signals,      \* the number of signals received
    main          \* the state of the coroutine the runner is running

vars == <<model, source, final0, finalExists, finalUnique, final, stageExists,
          stage, attempt, pc, cpc, error, details, heartbeat, todo, buffer,
          stageEntered, mergeCalls, dropCalls, dropFailed, copied, merged,
          flushStart, maxMerged, finalBefore, conn, connectTries, connectError,
          call, table_name, data_interval_end, team_id, stagle_table_name, data,
          sanitized, tsv_position, copy_stream, record_schema, pg_schema, columns,
          selectable, introspection, schema_columns, used, queue, batches, put,
          taken,
          run_id, insert_inputs,
          legacy_metrics, original_metrics, new_structure, index,
          runs, stage_tables,
          teams, teams_at_start, batch_size, last_pk, batch, saves, transactions, savepoint,
          worker, ready, tasks, shutdown_task, signals, main>>

\* The variables of the activity, of the client, of the staging identifier
\* and of the sanitizer.
activityVars == <<model, source, final0, finalExists, finalUnique, final, stageExists,
                  stage, attempt, pc, cpc, error, details, heartbeat, todo, buffer,
                  stageEntered, mergeCalls, dropCalls, dropFailed, copied, merged,
                  flushStart, maxMerged, finalBefore>>

clientVars == <<conn, connectTries, connectError, call>>

nameVars == <<table_name, data_interval_end, team_id, stagle_table_name>>

schemaVars == <<record_schema, pg_schema>>

fieldVars == <<columns, selectable, introspection, schema_columns, used>>

queueVars == <<queue, batches, put, taken>>

workflowVars == <<run_id, insert_inputs>>

convertVars == <<legacy_metrics, original_metrics, new_structure, index>>

twoRunsVars == <<runs, stage_tables>>

backfillVars == <<teams, teams_at_start, batch_size, last_pk, batch, saves, transactions,
                  savepoint>>

workerVars == <<worker, ready, tasks, shutdown_task, signals, main>>

\* The variables of the specifications that stand apart from the activity.
extraVars == <<queueVars, workflowVars, convertVars, twoRunsVars, backfillVars, workerVars>>

jsonVars == <<data, sanitized, tsv_position, copy_stream, record_schema, pg_schema>>

\* ------------------------------------------------------------------------
\* Model resolution (insert_into_postgres_activity, lines 666-692)
\* ------------------------------------------------------------------------
IdField(m) == IF m = "sessions" THEN "session_id" ELSE "distinct_id"

requires_merge(m) == m \in {"persons", "sessions"}

merge_key(m) ==
    IF m = "persons" THEN <<"team_id", "distinct_id">>
    ELSE IF m = "sessions" THEN <<"team_id", "session_id">>
    ELSE <<>>

update_key(m) ==
    IF m = "persons" THEN <<"person_version", "person_distinct_id_version">>
    ELSE IF m = "sessions" THEN <<"end_timestamp">>
    ELSE <<>>

primary_key(m) ==
    IF m = "persons" THEN <<"team_id", "distinct_id">>
    ELSE IF m = "sessions" THEN <<"team_id", "session_id">>
    ELSE <<>>

\* ------------------------------------------------------------------------
\* Rows
\* ------------------------------------------------------------------------
\* A row of the model m: id column, version columns and a payload column
\* (properties) that tells which batch the row came from (0: it was in the
\* destination before the export).
Row(m, id, v, w, p) ==
    IF m = "persons" THEN
        [team_id |-> 42, distinct_id |-> id, person_version |-> v,
         person_distinct_id_version |-> w, properties |-> p]
    ELSE IF m = "sessions" THEN
        [team_id |-> 42, session_id |-> id, end_timestamp |-> v, properties |-> p]
    ELSE
        [team_id |-> 42, distinct_id |-> id, properties |-> p]

RowsOf(m, ps) ==
    IF m = "persons" THEN {Row(m, id, v, w, p) : id \in Ids, v \in Versions, w \in Versions, p \in ps}
    ELSE IF m = "sessions" THEN {Row(m, id, v, 0, p) : id \in Ids, v \in Versions, p \in ps}
    ELSE {Row(m, id, 0, 0, p) : id \in Ids, p \in ps}

SameOn(fields, a, b) == \A i \in 1..Len(fields) : a[fields[i]] = b[fields[i]]

\* No two rows of the set agree on all the given columns.
UniqueOn(fields, rows) ==
    \A a \in rows : \A b \in rows : (a # b) => ~SameOn(fields, a, b)

SeqToBag(s) ==
    LET RECURSIVE Build(_)
        Build(i) == IF i = 0 THEN EmptyBag ELSE Build(i - 1) (+) SetToBag({s[i]})
    IN Build(Len(s))

SeqToSet(s) == {s[i] : i \in 1..Len(s)}

\* Column list of the model: table_fields as the activity derives it (lines
\* 645-664).  Besides the columns of the model's rows it names one column
\* that the rows here do not carry and an older destination may lack.
table_fields(m) ==
    IF m = "persons" THEN
        <<"team_id", "distinct_id", "person_version", "person_distinct_id_version",
          "created_at", "properties">>
    ELSE IF m = "sessions" THEN
        <<"team_id", "session_id", "end_timestamp", "start_timestamp", "properties">>
    ELSE <<"team_id", "distinct_id", "site_url", "properties">>

\* The columns of a destination table that the user created for an older
\* schema of the model.
older_columns(m) ==
    SeqToSet(table_fields(m)) \ {"created_at", "start_timestamp", "site_url"}

\* ------------------------------------------------------------------------
\* PostgreSQL statements
\* ------------------------------------------------------------------------
\* COPY ... FROM STDIN of the rows of one spill file into a table whose unique
\* index is on the columns `unique` (<<>>: no index), lines 399-432.  The COPY
\* runs in one transaction: a duplicate key makes it raise and adds nothing.
CopyViolatesUnique(table, unique, rows) ==
    /\ unique # <<>>
    /\ \/ \E i \in 1..Len(rows) : \E t \in BagToSet(table) : SameOn(unique, rows[i], t)
       \/ \E i \in 1..Len(rows) : \E j \in 1..Len(rows) :
              i # j /\ SameOn(unique, rows[i], rows[j])

CopyResult(table, rows) == table (+) SeqToBag(rows)

\* Variants of update_condition: overwrite on any difference, overwrite when
\* greater or equal, and conditions joined with AND.
update_condition_on_difference(excluded, fin, uk) ==
    \E i \in 1..Len(uk) : excluded[uk[i]] # fin[uk[i]]

update_condition_or_equal(excluded, fin, uk) ==
    \E i \in 1..Len(uk) : excluded[uk[i]] >= fin[uk[i]]

update_condition_and_joined(excluded, fin, uk) ==
    \A i \in 1..Len(uk) : excluded[uk[i]] > fin[uk[i]]

\* update_condition of amerge_mutable_tables (lines 350-357): the EXCLUDED
\* (staging) row is strictly greater than the final row in some update-key
\* column; the conditions are joined with OR.
update_condition(excluded, fin, uk) ==
    \E i \in 1..Len(uk) : excluded[uk[i]] > fin[uk[i]]

\* update_clause (lines 359-366): every update_when_matched column of the
\* final row is set from the EXCLUDED row.
update_clause(excluded, fin, uwm) ==
    [c \in DOMAIN fin |-> IF c \in SeqToSet(uwm) THEN excluded[c] ELSE fin[c]]

\* The INSERT ... SELECT ... ON CONFLICT (merge_key) DO UPDATE SET ... WHERE
\* statement of amerge_mutable_tables (lines 370-386), as a function of the
\* two tables.  The final table has a unique index on the merge key and the
\* staging rows have pairwise different merge keys (see MergeError).
MergeTables(fin, stg, mk, uk, uwm) ==
    LET F == BagToSet(fin)
        S == BagToSet(stg)
        Match(s) == {f \in F : SameOn(mk, f, s)}
        Inserted == {s \in S : Match(s) = {}}
        Updated == {update_clause(s, f, uwm) :
                        <<s, f>> \in {<<s, f>> \in S \X F :
                                         SameOn(mk, f, s) /\ update_condition(s, f, uk)}}
        Kept == {f \in F : \A s \in S : SameOn(mk, f, s) => ~update_condition(s, f, uk)}
    IN SetToBag(Kept \cup Updated \cup Inserted)

\* What the merge statement raises instead of committing ("none": nothing).
\* Without a unique index on the conflict columns PostgreSQL reports
\* InvalidColumnReference, which lines 394-397 turn into
\* MissingPrimaryKeyError; two staging rows with one merge key make ON
\* CONFLICT DO UPDATE affect a row twice (CardinalityViolation).
MergeError(finUnique, stg, mk) ==
    IF finUnique # mk THEN "MissingPrimaryKeyError"
    ELSE IF ~UniqueOn(mk, BagToSet(stg)) \/ \E r \in BagToSet(stg) : CopiesIn(r, stg) > 1
         THEN "CardinalityViolation"
    ELSE "none"

\* Errors a statement can fail with for reasons outside the activity: one the
\* workflow retries and one it does not.
DbErrors == {"QueryCanceled", "DiskFull"}

\* Variant of NonRetryable: the list without MissingPrimaryKeyError.
NonRetryableWithoutMissingPrimaryKey ==
    {"OperationalError", "InvalidSchemaName", "InsufficientPrivilege", "NotNullViolation",
     "UniqueViolation", "UndefinedColumn", "StringDataRightTruncation", "DiskFull",
     "PostgreSQLConnectionError", "FeatureNotSupported",
     "CheckViolation", "ForeignKeyViolation", "UntranslatableCharacter"}

\* Variant of NonRetryable: the list given for start_batch_export_run
\* (line 819).
NonRetryableOfStartRun == {"NotNullViolation", "IntegrityError"}

\* non_retryable_error_types of PostgresBatchExportWorkflow.run (lines 855-889).
NonRetryable ==
    {"OperationalError", "InvalidSchemaName", "InsufficientPrivilege", "NotNullViolation",
     "UniqueViolation", "UndefinedColumn", "StringDataRightTruncation", "DiskFull",
     "PostgreSQLConnectionError", "MissingPrimaryKeyError", "FeatureNotSupported",
     "CheckViolation", "ForeignKeyViolation", "UntranslatableCharacter"}

\* ------------------------------------------------------------------------
\* Heartbeat details (BatchExportRangeHeartbeatDetails)
\* ------------------------------------------------------------------------
NoDetails == [done_ranges |-> {}, records_completed |-> 0]

\* track_done_range: the range of the flush joins the done ranges.
track_done_range(d, rs) == [d EXCEPT !.done_ranges = @ \cup rs]

\* ------------------------------------------------------------------------
\* PostgreSQLClient: the connection (lines 117, 131-184)
\* ------------------------------------------------------------------------
\* max_attempts of connect (line 149).
max_attempts == 5

\* Variant of retryable_exceptions: every error of a connection attempt.
retryable_exceptions_any == {"OperationalError", "ConnectionTimeout", "ProgrammingError"}

\* retryable_exceptions handed to make_retryable_with_exponential_backoff
\* (line 153).
retryable_exceptions == {"OperationalError", "ConnectionTimeout"}

\* What psycopg.AsyncConnection.connect can raise: the two transient errors
\* and one that is not an OperationalError (a malformed connection string).
ConnectErrors == {"OperationalError", "ConnectionTimeout", "ProgrammingError"}

\* make_retryable_with_exponential_backoff: after the attempt number `tries`
\* raised err, another attempt follows when err is retryable and fewer than
\* max_attempts attempts were made; otherwise err is raised to connect.
ShouldRetry(err, tries) == err \in retryable_exceptions /\ tries < max_attempts

\* Lines 169-180: both ConnectionTimeout and OperationalError leave connect
\* as PostgreSQLConnectionError; any other exception leaves it unchanged.
ConnectRaises(err) ==
    IF err \in {"ConnectionTimeout", "OperationalError"}
    THEN "PostgreSQLConnectionError"
    ELSE err

\* Variant of connection: the property hands out _connection unchecked.
connection_unchecked(c) == "ok"

\* The `connection` property (lines 131-136): it raises when _connection is
\* None and otherwise returns _connection, whatever state that is in.
connection(c) == IF c = "none" THEN "PostgreSQLConnectionError" ELSE "ok"

\* What psycopg does with the object the property returned when a transaction
\* is opened on it: an open connection accepts it, a closed one raises
\* OperationalError ("the connection is closed"), and None has no
\* transaction attribute.
Driver(c) ==
    IF c = "open" THEN "ok"
    ELSE IF c = "closed" THEN "OperationalError"
    ELSE "AttributeError"

\* `async with self.connection.transaction()`, the first thing every operation
\* does with the connection (lines 218, 254, 272, 388, 416).
Access(c) == IF connection(c) # "ok" THEN connection(c) ELSE Driver(c)

\* No operation of the client under way.  A call records its arguments, the
\* state of _connection when it was made, how far managed_table has got,
\* whether acreate_table and adelete_table were called, how the body ended,
\* the statements sent to the server and the outcome.
NoCall ==
    [op |-> "none", create |-> FALSE, delete |-> FALSE, exists_ok |-> TRUE,
     not_found_ok |-> TRUE, connAt |-> "none", phase |-> "done",
     createCalled |-> FALSE, body |-> "not_run", deleteCalled |-> FALSE,
     stmts |-> <<>>, result |-> "ok"]

\* acreate_table (lines 186-234) on a table that exists or not: outcome,
\* statements sent and whether the table exists afterwards.
acreate_table(c, exists, exists_ok) ==
    IF Access(c) # "ok"
    THEN [result |-> Access(c), stmts |-> <<>>, exists |-> exists]
    ELSE IF exists_ok
    THEN [result |-> "ok", stmts |-> <<"CREATE TABLE IF NOT EXISTS">>, exists |-> TRUE]
    ELSE IF exists
    THEN [result |-> "DuplicateTable", stmts |-> <<"CREATE TABLE">>, exists |-> exists]
    ELSE [result |-> "ok", stmts |-> <<"CREATE TABLE">>, exists |-> TRUE]

\* adelete_table (lines 236-258).
adelete_table(c, exists, not_found_ok) ==
    IF Access(c) # "ok"
    THEN [result |-> Access(c), stmts |-> <<>>, exists |-> exists]
    ELSE IF not_found_ok
    THEN [result |-> "ok", stmts |-> <<"DROP TABLE IF EXISTS">>, exists |-> FALSE]
    ELSE IF ~exists
    THEN [result |-> "UndefinedTable", stmts |-> <<"DROP TABLE">>, exists |-> exists]
    ELSE [result |-> "ok", stmts |-> <<"DROP TABLE">>, exists |-> FALSE]

\* aget_table_columns (lines 260-279), amerge_mutable_tables (lines 317-397)
\* and copy_tsv_to_postgres (lines 399-432), as far as the connection and
\* the existence of the table decide their outcome.
StatementOf(op) ==
    IF op = "aget_table_columns" THEN "SELECT"
    ELSE IF op = "amerge_mutable_tables" THEN "INSERT ON CONFLICT"
    ELSE "COPY"

table_operation(op, c, exists) ==
    IF Access(c) # "ok"
    THEN [result |-> Access(c), stmts |-> <<>>, exists |-> exists]
    ELSE [result |-> IF exists THEN "ok" ELSE "UndefinedTable",
          stmts |-> <<StatementOf(op)>>, exists |-> exists]

NoClient ==
    /\ conn = "none"
    /\ connectTries = 0
    /\ connectError = "none"
    /\ call = NoCall

NoNames ==
    /\ table_name = <<>>
    /\ data_interval_end = <<>>
    /\ team_id = 0
    /\ stagle_table_name = <<>>

\* No record-batch queue.
NoQueue ==
    /\ queue = <<>>
    /\ batches = <<>>
    /\ put = <<>>
    /\ taken = <<>>

\* No run of the workflow.
NoWorkflow ==
    /\ run_id = "none"
    /\ insert_inputs = <<>>

\* No call of convert_legacy_metric.
NoConvert ==
    /\ legacy_metrics = <<>>
    /\ original_metrics = <<>>
    /\ new_structure = <<>>
    /\ index = 0

\* No second run of the activity.
NoTwoRuns ==
    /\ runs = <<>>
    /\ stage_tables = <<>>

\* No run of the backfill script.
NoBackfill ==
    /\ teams = <<>>
    /\ teams_at_start = <<>>
    /\ batch_size = 0
    /\ last_pk = 0
    /\ batch = <<>>
    /\ saves = <<>>
    /\ transactions = 0
    /\ savepoint = <<>>

\* No run of the start_temporal_worker command.
NoWorker ==
    /\ worker = "none"
    /\ ready = <<>>
    /\ tasks = <<>>
    /\ shutdown_task = 0
    /\ signals = 0
    /\ main = "none"

NoExtra ==
    /\ NoWorker
    /\ NoBackfill
    /\ NoTwoRuns
    /\ NoConvert
    /\ NoWorkflow
    /\ NoQueue

\* No destination table and no attempt of the activity.
NoFields ==
    /\ columns = {}
    /\ selectable = TRUE
    /\ introspection = "none"
    /\ schema_columns = <<>>
    /\ used = {}

\* get_postgres_fields_from_record_schema has not been called.
NotCalled == [raised |-> <<>>, returned |-> <<>>]

NoSchema ==
    /\ record_schema = <<>>
    /\ pg_schema = NotCalled

NoJson ==
    /\ data = <<>>
    /\ sanitized = <<>>
    /\ tsv_position = 0
    /\ copy_stream = <<>>
    /\ NoSchema

\* ------------------------------------------------------------------------
\* Initial states
\* ------------------------------------------------------------------------
Min(a, b) == IF a < b THEN a ELSE b

\* The batch of sub-range r: one row, whose versions grow with the watermark.
SourceRow(m, id, r) == Row(m, id, Min(r, MaxVersion), 1, r)

\* The rows of the window: a batch in each sub-range, or no rows at all.
Sources(m) ==
    {[r \in Ranges |-> SourceRow(m, ids[r], r)] : ids \in [Ranges -> Ids]} \cup {<<>>}

\* The sub-ranges the producer finds rows in.
Window == DOMAIN source

\* A row the destination may hold from an earlier export.
OldRow(m) == Row(m, "user-a", MaxVersion, 1, 0)

UserKey(m) == <<"team_id", IdField(m)>>

Init ==
    /\ model \in Models
    /\ source \in Sources(model)
    /\ \E pre \in {"absent", "plain", "keyed", "keyed_row", "older", "unreadable"} :
          /\ finalExists = (pre # "absent")
          /\ columns = IF pre = "absent" THEN {}
                       ELSE IF pre \in {"older", "unreadable"} THEN older_columns(model)
                       ELSE SeqToSet(table_fields(model))
          /\ selectable = (pre # "unreadable")
          /\ finalUnique = IF pre \in {"keyed", "keyed_row", "older"}
                           THEN UserKey(model)
                           ELSE <<>>
          /\ final = IF pre = "keyed_row" THEN SetToBag({OldRow(model)}) ELSE EmptyBag
    /\ final0 = final
    /\ stageExists = FALSE
    /\ stage = EmptyBag
    /\ attempt = 1
    /\ pc = "start"
    /\ cpc = "idle"
    /\ error = "none"
    /\ details = NoDetails
    /\ heartbeat = NoDetails
    /\ todo = <<>>
    /\ buffer = <<>>
    /\ stageEntered = FALSE
    /\ mergeCalls = 0
    /\ dropCalls = {}
    /\ dropFailed = {}
    /\ copied = {}
    /\ merged = {}
    /\ flushStart = NoDetails
    /\ maxMerged = [id \in Ids |-> 0]
    /\ finalBefore = EmptyBag
    /\ NoClient
    /\ NoNames
    /\ introspection = "none"
    /\ schema_columns = <<>>
    /\ used = {}
    /\ NoExtra
    /\ NoJson

\* ------------------------------------------------------------------------
\* insert_into_postgres_activity
\* ------------------------------------------------------------------------
Ascending(rs) ==
    LET RECURSIVE Build(_, _)
        Build(r, acc) ==
            IF r > NRanges THEN acc
            ELSE Build(r + 1, IF r \in rs THEN Append(acc, r) ELSE acc)
    IN Build(1, <<>>)

BufferRows == [i \in 1..Len(buffer) |-> source[buffer[i]]]

\* Lines 603-639: the details of the last heartbeat are restored, the producer
\* is started on the window minus the done ranges, and when it ends without a
\* schema (nothing left to export) the activity returns records_completed.
\* Variant of NoSchemaExit: the activity goes on to connect.
NoSchemaConnects == "connect"

\* Lines 638-639: without a schema the activity returns at once.
NoSchemaExit == "returned"

ResumeFromHeartbeat ==
    /\ pc = "start"
    /\ details' = heartbeat
    /\ todo' = Ascending(Window \ heartbeat.done_ranges)
    /\ pc' = IF Window \subseteq heartbeat.done_ranges THEN NoSchemaExit ELSE "connect"
    /\ schema_columns' = IF Window \subseteq heartbeat.done_ranges
                          THEN schema_columns
                          ELSE table_fields(model)
    /\ UNCHANGED <<model, source, final0, finalExists, finalUnique, final, stageExists,
                   stage, attempt, cpc, error, heartbeat, buffer, stageEntered,
                   mergeCalls, dropCalls, dropFailed, copied, merged, flushStart, maxMerged, finalBefore>>
    /\ UNCHANGED <<clientVars, nameVars, jsonVars, extraVars, columns, selectable, introspection, used>>

\* Variant of CreatesOnEntry: the table is created whatever `create` says.
CreatesAlways(create) == TRUE

\* managed_table, lines 308-309: the table is created on entry when create
\* is true.
CreatesOnEntry(create) == create

\* Variants of FinalTableFlags: a final table that is dropped on exit, and
\* one that is not created on entry.
FinalTableDeleted == [create |-> TRUE, delete |-> TRUE]

FinalTableNotCreated == [create |-> FALSE, delete |-> FALSE]

\* Lines 725-727: the final table is managed with delete=False and the
\* default create=True.
FinalTableFlags == [create |-> TRUE, delete |-> FALSE]

\* Lines 728-735: the staging table is managed with create=requires_merge
\* and delete=requires_merge.
StageTableFlags(m) == [create |-> requires_merge(m), delete |-> requires_merge(m)]

\* One connection attempt of connect (lines 157-184).  When it succeeds the
\* connection becomes the client's _connection and the body of the connect
\* scope is entered at `entered`; when it raises, the retry wrapper either
\* makes the next attempt or connect raises to `left`.
ConnectAttempt(entered, left) ==
    \/ /\ connectTries' = 0
       /\ connectError' = "none"
       /\ conn' = "open"
       /\ pc' = entered
       /\ error' = error
    \/ \E e \in ConnectErrors :
          /\ connectTries' = connectTries + 1
          /\ connectError' = e
          /\ conn' = conn
          /\ IF ShouldRetry(e, connectTries + 1)
             THEN pc' = pc /\ error' = error
             ELSE pc' = left /\ error' = ConnectRaises(e)

\* Line 704: the activity connects a new client.
Connect ==
    /\ pc = "connect"
    /\ ConnectAttempt("get_columns", "raised")
    /\ UNCHANGED <<model, source, final0, finalExists, finalUnique, final, stageExists,
                   stage, attempt, cpc, details, heartbeat, todo, buffer, stageEntered,
                   mergeCalls, dropCalls, dropFailed, copied, merged, flushStart,
                   maxMerged, finalBefore>>
    /\ UNCHANGED <<call, nameVars, jsonVars, extraVars, fieldVars>>

\* Variant of live_fields: the derived list is not intersected.
all_fields(fields, live) == fields

\* Line 708: the fields whose names are columns of the destination, in the
\* order of the derived list.
live_fields(fields, live) == SelectSeq(fields, LAMBDA field : field \in live)

\* Variant of caught_introspection_errors: only UndefinedTable is caught.
caught_undefined_table_only == {"UndefinedTable"}

\* The except clauses of lines 709 and 718.
caught_introspection_errors == {"InsufficientPrivilege", "UndefinedTable"}

\* What SELECT * FROM table WHERE 1=0 (line 277) can end with: the columns
\* of an existing table, a refusal to read it, no such table, or another
\* database error.
IntrospectionOutcomes ==
    DbErrors \cup {IF ~finalExists THEN "UndefinedTable"
                   ELSE IF ~selectable THEN "InsufficientPrivilege"
                   ELSE "ok"}

\* Lines 705-720: aget_table_columns and the handling of its errors.  An
\* error that is not caught leaves the connect scope, which closes the
\* connection, and the activity raises it.
GetTableColumns ==
    /\ pc = "get_columns"
    /\ \E outcome \in IntrospectionOutcomes :
          /\ introspection' = outcome
          /\ IF outcome = "ok"
             THEN /\ schema_columns' = live_fields(schema_columns, columns)
                  /\ pc' = "create_final"
                  /\ error' = error
             ELSE IF outcome \in caught_introspection_errors
             THEN /\ schema_columns' = schema_columns
                  /\ pc' = "create_final"
                  /\ error' = error
             ELSE /\ schema_columns' = schema_columns
                  /\ pc' = "close"
                  /\ error' = outcome
    /\ UNCHANGED <<model, source, final0, finalExists, finalUnique, final, stageExists,
                   stage, attempt, cpc, details, heartbeat, todo, buffer, stageEntered,
                   mergeCalls, dropCalls, dropFailed, copied, merged, flushStart,
                   maxMerged, finalBefore>>
    /\ UNCHANGED <<clientVars, nameVars, jsonVars, extraVars, columns, selectable, used>>

\* Lines 724-727 with 308-309: managed_table of the final table creates it
\* (CREATE TABLE IF NOT EXISTS, with the model's primary key) or raises.
EnterFinalTable ==
    /\ pc = "create_final"
    /\ \/ /\ finalExists' = (finalExists \/ CreatesOnEntry(FinalTableFlags.create))
          /\ finalUnique' = IF ~finalExists /\ CreatesOnEntry(FinalTableFlags.create)
                            THEN primary_key(model)
                            ELSE finalUnique
          /\ columns' = IF ~finalExists /\ CreatesOnEntry(FinalTableFlags.create)
                        THEN SeqToSet(schema_columns)
                        ELSE columns
          /\ used' = used \cup {<<"create_final", schema_columns>>}
          /\ pc' = "create_stage"
          /\ error' = error
       \/ /\ \E e \in DbErrors : error' = e
          /\ pc' = "close"
          /\ UNCHANGED <<finalExists, finalUnique, columns, used>>
    /\ UNCHANGED <<model, source, final0, final, stageExists, stage, attempt, cpc,
                   details, heartbeat, todo, buffer, stageEntered, mergeCalls,
                   dropCalls, dropFailed, copied, merged, flushStart, maxMerged, finalBefore>>
    /\ UNCHANGED <<clientVars, nameVars, jsonVars, extraVars, selectable, introspection, schema_columns>>

\* Lines 728-735 with 308-309: managed_table of the staging table, created
\* only for a merge model (create=requires_merge); then run_consumer starts.
\* When the creation raises, the scope of the final table is left (it has
\* delete=False) and the activity fails.
EnterStageTable ==
    /\ pc = "create_stage"
    /\ \/ /\ stageExists' = (stageExists \/ CreatesOnEntry(StageTableFlags(model).create))
          /\ stageEntered' = requires_merge(model)
          /\ used' = used \cup {<<"field_names", schema_columns>>}
                        \cup IF CreatesOnEntry(StageTableFlags(model).create)
                             THEN {<<"create_stage", schema_columns>>}
                             ELSE {}
          /\ pc' = "run_consumer"
          /\ cpc' = "consume"
          /\ error' = error
       \/ /\ CreatesOnEntry(StageTableFlags(model).create)
          /\ \E e \in DbErrors : error' = e
          /\ pc' = "close"
          /\ UNCHANGED <<stageExists, stageEntered, cpc, used>>
    /\ UNCHANGED <<model, source, final0, finalExists, finalUnique, final, stage,
                   attempt, details, heartbeat, todo, buffer, mergeCalls, dropCalls, dropFailed,
                   copied, merged, flushStart, maxMerged, finalBefore>>
    /\ UNCHANGED <<clientVars, nameVars, jsonVars, extraVars, columns, selectable, introspection, schema_columns>>

\* ------------------------------------------------------------------------
\* The consumer task (run_consumer and PostgreSQLConsumer.flush)
\* ------------------------------------------------------------------------
\* The consumer takes the next record batch and writes it to the spill file.
ConsumeBatch ==
    /\ cpc = "consume"
    /\ todo # <<>>
    /\ buffer' = Append(buffer, Head(todo))
    /\ todo' = Tail(todo)
    /\ UNCHANGED <<model, source, final0, finalExists, finalUnique, final, stageExists,
                   stage, attempt, pc, cpc, error, details, heartbeat, stageEntered,
                   mergeCalls, dropCalls, dropFailed, copied, merged, flushStart, maxMerged, finalBefore>>
    /\ UNCHANGED <<clientVars, nameVars, jsonVars, extraVars, fieldVars>>

\* Variant of FlushCopyBegin: the details are advanced before the COPY.
FlushCopyBeginTracksFirst ==
    /\ cpc = "consume"
    /\ buffer # <<>>
    /\ cpc' = "copying"
    /\ flushStart' = details
    /\ details' = track_done_range(
                      [details EXCEPT !.records_completed = @ + Len(buffer)],
                      SeqToSet(buffer))
    /\ UNCHANGED <<model, source, final0, finalExists, finalUnique, final, stageExists,
                   stage, attempt, pc, error, heartbeat, todo, buffer, stageEntered,
                   mergeCalls, dropCalls, dropFailed, copied, merged, maxMerged,
                   finalBefore>>
    /\ UNCHANGED <<clientVars, nameVars, jsonVars, extraVars, fieldVars>>

\* flush, lines 571-576: the spill file is handed to copy_tsv_to_postgres,
\* which opens the transaction and the COPY.  A flush happens when the spill
\* file has reached the chunk size (any non-empty file here) or the producer
\* has finished.
FlushCopyBegin ==
    /\ cpc = "consume"
    /\ buffer # <<>>
    /\ cpc' = "copying"
    /\ flushStart' = details
    /\ used' = used \cup {<<"copy", schema_columns>>}
    /\ UNCHANGED <<model, source, final0, finalExists, finalUnique, final, stageExists,
                   stage, attempt, pc, error, details, heartbeat, todo, buffer,
                   stageEntered, mergeCalls, dropCalls, dropFailed, copied, merged, maxMerged, finalBefore>>
    /\ UNCHANGED <<clientVars, nameVars, jsonVars, extraVars, columns, selectable, introspection, schema_columns>>

\* The table the consumer copies into (line 744) and its unique index: the
\* staging table is created with the model's primary key (line 734).
CopiesIntoFinalAlways == FALSE

CopiesIntoStage == requires_merge(model)

\* Variant of StageUnique: a staging table without primary key.
StageWithoutPrimaryKey == <<>>

StageUnique == primary_key(model)

\* copy_tsv_to_postgres, lines 416-432: the COPY and its transaction commit.
FlushCopyCommit ==
    /\ cpc = "copying"
    /\ IF CopiesIntoStage
       THEN /\ ~CopyViolatesUnique(stage, StageUnique, BufferRows)
            /\ stage' = CopyResult(stage, BufferRows)
            /\ final' = final
       ELSE /\ ~CopyViolatesUnique(final, finalUnique, BufferRows)
            /\ final' = CopyResult(final, BufferRows)
            /\ stage' = stage
    /\ copied' = copied \cup SeqToSet(buffer)
    /\ cpc' = "copied"
    /\ UNCHANGED <<model, source, final0, finalExists, finalUnique, stageExists,
                   attempt, pc, error, details, heartbeat, todo, buffer, stageEntered,
                   mergeCalls, dropCalls, dropFailed, merged, flushStart, maxMerged, finalBefore>>
    /\ UNCHANGED <<clientVars, nameVars, jsonVars, extraVars, fieldVars>>

\* copy_tsv_to_postgres raises: the transaction is rolled back, flush and the
\* consumer end with the error.
FlushCopyRaise ==
    /\ cpc = "copying"
    /\ \/ error' \in DbErrors
       \/ /\ error' = "UniqueViolation"
          /\ IF CopiesIntoStage
             THEN CopyViolatesUnique(stage, StageUnique, BufferRows)
             ELSE CopyViolatesUnique(final, finalUnique, BufferRows)
    /\ cpc' = "failed"
    /\ UNCHANGED <<model, source, final0, finalExists, finalUnique, final, stageExists,
                   stage, attempt, pc, details, heartbeat, todo, buffer, stageEntered,
                   mergeCalls, dropCalls, dropFailed, copied, merged, flushStart, maxMerged, finalBefore>>
    /\ UNCHANGED <<clientVars, nameVars, jsonVars, extraVars, fieldVars>>

\* Variant of FlushTrack: the range of the flush takes the place of the done
\* ranges.
FlushTrackReplaces ==
    /\ cpc = "copied"
    /\ details' = [done_ranges |-> SeqToSet(buffer),
                   records_completed |-> details.records_completed + Len(buffer)]
    /\ buffer' = <<>>
    /\ cpc' = "consume"
    /\ UNCHANGED <<model, source, final0, finalExists, finalUnique, final, stageExists,
                   stage, attempt, pc, error, heartbeat, todo, stageEntered,
                   mergeCalls, dropCalls, dropFailed, copied, merged, flushStart, maxMerged, finalBefore>>
    /\ UNCHANGED <<clientVars, nameVars, jsonVars, extraVars, fieldVars>>

\* Variant of FlushTrack: the rows are counted and the range is not tracked.
FlushTrackCountsOnly ==
    /\ cpc = "copied"
    /\ details' = [details EXCEPT !.records_completed = @ + Len(buffer)]
    /\ buffer' = <<>>
    /\ cpc' = "consume"
    /\ UNCHANGED <<model, source, final0, finalExists, finalUnique, final, stageExists,
                   stage, attempt, pc, error, heartbeat, todo, stageEntered,
                   mergeCalls, dropCalls, dropFailed, copied, merged, flushStart, maxMerged, finalBefore>>
    /\ UNCHANGED <<clientVars, nameVars, jsonVars, extraVars, fieldVars>>

\* flush, lines 578-583: after the COPY returned, records_completed and the
\* done ranges advance (no suspension point lies between the two lines), and
\* the spill file is rotated.
FlushTrack ==
    /\ cpc = "copied"
    /\ details' = track_done_range(
                      [details EXCEPT !.records_completed = @ + Len(buffer)],
                      SeqToSet(buffer))
    /\ buffer' = <<>>
    /\ cpc' = "consume"
    /\ UNCHANGED <<model, source, final0, finalExists, finalUnique, final, stageExists,
                   stage, attempt, pc, error, heartbeat, todo, stageEntered,
                   mergeCalls, dropCalls, dropFailed, copied, merged, flushStart, maxMerged, finalBefore>>
    /\ UNCHANGED <<clientVars, nameVars, jsonVars, extraVars, fieldVars>>

\* The queue is empty, the producer is done and the last flush has happened.
ConsumerReturn ==
    /\ cpc = "consume"
    /\ todo = <<>>
    /\ buffer = <<>>
    /\ cpc' = "done"
    /\ UNCHANGED <<model, source, final0, finalExists, finalUnique, final, stageExists,
                   stage, attempt, pc, error, details, heartbeat, todo, buffer,
                   stageEntered, mergeCalls, dropCalls, dropFailed, copied, merged, flushStart,
                   maxMerged, finalBefore>>
    /\ UNCHANGED <<clientVars, nameVars, jsonVars, extraVars, fieldVars>>

\* The attempt is cancelled while the activity awaits run_consumer: the
\* consumer ends with CancelledError at the suspension point it is at (an
\* open COPY is rolled back; a committed one stays committed).
Cancel ==
    /\ pc = "run_consumer"
    /\ cpc \in {"consume", "copying", "copied"}
    /\ cpc' = "failed"
    /\ error' = "CancelledError"
    /\ UNCHANGED <<model, source, final0, finalExists, finalUnique, final, stageExists,
                   stage, attempt, pc, details, heartbeat, todo, buffer, stageEntered,
                   mergeCalls, dropCalls, dropFailed, copied, merged, flushStart, maxMerged, finalBefore>>
    /\ UNCHANGED <<clientVars, nameVars, jsonVars, extraVars, fieldVars>>

\* The heartbeater hands the current details to the orchestrator.
Heartbeat ==
    /\ pc \notin {"start", "returned", "raised"}
    /\ heartbeat # details
    /\ heartbeat' = details
    /\ UNCHANGED <<model, source, final0, finalExists, finalUnique, final, stageExists,
                   stage, attempt, pc, cpc, error, details, todo, buffer, stageEntered,
                   mergeCalls, dropCalls, dropFailed, copied, merged, flushStart, maxMerged, finalBefore>>
    /\ UNCHANGED <<clientVars, nameVars, jsonVars, extraVars, fieldVars>>

\* ------------------------------------------------------------------------
\* The end of the attempt: finally block, managed_table exits
\* ------------------------------------------------------------------------
\* Variant of ConsumerFinished: the activity does not wait for the consumer.
ConsumerNotAwaited == cpc \in {"consume", "copying", "copied", "done", "failed"}

\* `await run_consumer(...)` (lines 748-763) has returned or raised: the
\* consumer task has ended.
ConsumerFinished == cpc \in {"done", "failed"}

AwaitRunConsumer ==
    /\ pc = "run_consumer"
    /\ ConsumerFinished
    /\ pc' = "finally"
    /\ UNCHANGED <<model, source, final0, finalExists, finalUnique, final, stageExists,
                   stage, attempt, cpc, error, details, heartbeat, todo, buffer,
                   stageEntered, mergeCalls, dropCalls, dropFailed, copied, merged, flushStart,
                   maxMerged, finalBefore>>
    /\ UNCHANGED <<clientVars, nameVars, jsonVars, extraVars, fieldVars>>

\* Variant of MergesInFinally: the merge runs only when run_consumer returned.
MergesOnlyOnSuccess(err) == requires_merge(model) /\ err = "none"

\* Lines 764-765: the finally block merges whenever requires_merge is set,
\* whether run_consumer returned or raised the exception err.
MergesInFinally(err) == requires_merge(model)

\* Per id, the largest first update-key column among the rows merged so far.
MaxMergedAfter(mm, stg, m) ==
    LET vf == update_key(m)[1]
        Vs(id) == {r[vf] : r \in {x \in BagToSet(stg) : x[IdField(m)] = id}}
    IN [id \in Ids |-> IF \E v \in Vs(id) : v > mm[id]
                       THEN CHOOSE v \in Vs(id) : \A u \in Vs(id) : u <= v
                       ELSE mm[id]]

\* Lines 766-773: amerge_mutable_tables is called.
MergeBegin ==
    /\ pc = "finally"
    /\ MergesInFinally(error)
    /\ mergeCalls' = mergeCalls + 1
    /\ used' = used \cup {<<"merge", schema_columns>>}
    /\ pc' = "merging"
    /\ UNCHANGED <<model, source, final0, finalExists, finalUnique, final, stageExists,
                   stage, attempt, cpc, error, details, heartbeat, todo, buffer,
                   stageEntered, dropCalls, dropFailed, copied, merged, flushStart, maxMerged, finalBefore>>
    /\ UNCHANGED <<clientVars, nameVars, jsonVars, extraVars, columns, selectable, introspection, schema_columns>>

\* Lines 764-765 when requires_merge is False: nothing to do in finally.
FinallyNoMerge ==
    /\ pc = "finally"
    /\ ~MergesInFinally(error)
    /\ pc' = "exit_stage"
    /\ UNCHANGED <<model, source, final0, finalExists, finalUnique, final, stageExists,
                   stage, attempt, cpc, error, details, heartbeat, todo, buffer,
                   stageEntered, mergeCalls, dropCalls, dropFailed, copied, merged, flushStart,
                   maxMerged, finalBefore>>
    /\ UNCHANGED <<clientVars, nameVars, jsonVars, extraVars, fieldVars>>

\* amerge_mutable_tables, lines 388-395: the merge statement commits.
MergeCommit ==
    /\ pc = "merging"
    /\ MergeError(finalUnique, stage, merge_key(model)) = "none"
    /\ final' = MergeTables(final, stage, merge_key(model), update_key(model),
                            schema_columns)
    /\ merged' = merged \cup {r.properties : r \in BagToSet(stage)}
    /\ maxMerged' = MaxMergedAfter(maxMerged, stage, model)
    /\ finalBefore' = final
    /\ pc' = "exit_stage"
    /\ UNCHANGED <<model, source, final0, finalExists, finalUnique, stageExists, stage,
                   attempt, cpc, error, details, heartbeat, todo, buffer, stageEntered,
                   mergeCalls, dropCalls, dropFailed, copied, flushStart>>
    /\ UNCHANGED <<clientVars, nameVars, jsonVars, extraVars, fieldVars>>

\* Variant of raised_in_finally: the exception in flight is kept.
raised_in_finally_keeps_first(in_flight, raised) ==
    IF in_flight = "none" THEN raised ELSE in_flight

\* An exception raised inside a finally block (lines 764-773, 312-315)
\* leaves the block in place of the exception in flight, which is kept only
\* as its __context__.
raised_in_finally(in_flight, raised) == raised

\* amerge_mutable_tables raises (lines 394-397 or any statement of it): the
\* exception leaves the finally block in place of the one run_consumer raised.
MergeRaise ==
    /\ pc = "merging"
    /\ \E raised \in DbErrors \cup ({MergeError(finalUnique, stage, merge_key(model))}
                                    \ {"none"}) :
            error' = raised_in_finally(error, raised)
    /\ pc' = "exit_stage"
    /\ UNCHANGED <<model, source, final0, finalExists, finalUnique, final, stageExists,
                   stage, attempt, cpc, details, heartbeat, todo, buffer, stageEntered,
                   mergeCalls, dropCalls, dropFailed, copied, merged, flushStart, maxMerged, finalBefore>>
    /\ UNCHANGED <<clientVars, nameVars, jsonVars, extraVars, fieldVars>>

\* Variant of DropsOnExit: the table is dropped only when the body returned.
DropsOnlyOnSuccess(delete, err) == delete /\ err = "none"

\* managed_table, lines 311-315: the table is dropped in a finally block when
\* delete is true, whatever exception err the body ended with.
DropsOnExit(delete, err) == delete

\* Lines 728-735: the staging scope is left (delete=requires_merge).  The
\* DROP TABLE IF EXISTS commits, or raises an error that replaces the
\* exception in flight.
ExitStageTable ==
    /\ pc = "exit_stage"
    /\ IF DropsOnExit(StageTableFlags(model).delete, error)
       THEN /\ dropCalls' = dropCalls \cup {"stage"}
            /\ \/ /\ stageExists' = FALSE
                  /\ stage' = EmptyBag
                  /\ UNCHANGED <<error, dropFailed>>
               \/ /\ \E raised \in DbErrors : error' = raised_in_finally(error, raised)
                  /\ dropFailed' = dropFailed \cup {"stage"}
                  /\ UNCHANGED <<stageExists, stage>>
       ELSE UNCHANGED <<dropCalls, dropFailed, stageExists, stage, error>>
    /\ pc' = "exit_final"
    /\ UNCHANGED <<model, source, final0, finalExists, finalUnique, final, attempt, cpc,
                   details, heartbeat, todo, buffer, stageEntered, mergeCalls, copied,
                   merged, flushStart, maxMerged, finalBefore>>
    /\ UNCHANGED <<clientVars, nameVars, jsonVars, extraVars, fieldVars>>

\* Lines 725-727: the scope of the final table is left (delete=False).
ExitFinalTable ==
    /\ pc = "exit_final"
    /\ IF DropsOnExit(FinalTableFlags.delete, error)
       THEN /\ dropCalls' = dropCalls \cup {"final"}
            /\ finalExists' = FALSE
            /\ final' = EmptyBag
            /\ dropFailed' = dropFailed
       ELSE UNCHANGED <<dropCalls, dropFailed, finalExists, final>>
    /\ pc' = "close"
    /\ UNCHANGED <<model, source, final0, finalUnique, stageExists, stage, attempt, cpc,
                   error, details, heartbeat, todo, buffer, stageEntered, mergeCalls,
                   copied, merged, flushStart, maxMerged, finalBefore>>
    /\ UNCHANGED <<clientVars, nameVars, jsonVars, extraVars, fieldVars>>

\* Variant of ClosesOnExit: the connection is closed only when the body of
\* the connect scope returned.
ClosesOnlyOnReturn(err) == err = "none"

\* Lines 182-184: `async with connection` closes the connection when the
\* scope is left, whatever exception err the body ended with.
ClosesOnExit(err) == TRUE

\* Variant of ConnectionAfterScope: _connection is reset when the scope ends.
ConnectionResetAfterScope == "none"

\* Lines 182-184: nothing assigns _connection after the scope has ended, so
\* the client keeps the connection object, which is now closed.
ConnectionAfterScope == "closed"

\* Lines 704 and 775: the connect scope is left, and the activity returns
\* records_completed or fails.
CloseConnection ==
    /\ pc = "close"
    /\ conn' = IF ClosesOnExit(error) THEN ConnectionAfterScope ELSE conn
    /\ pc' = IF error = "none" THEN "returned" ELSE "raised"
    /\ UNCHANGED <<model, source, final0, finalExists, finalUnique, final, stageExists,
                   stage, attempt, cpc, error, details, heartbeat, todo, buffer,
                   stageEntered, mergeCalls, dropCalls, dropFailed, copied, merged,
                   flushStart, maxMerged, finalBefore>>
    /\ UNCHANGED <<connectTries, connectError, call, nameVars, jsonVars, extraVars, fieldVars>>

\* The workflow's retry policy starts the next attempt unless the error type
\* is one of non_retryable_error_types.
Redrive ==
    /\ pc = "raised"
    /\ error \notin NonRetryable
    /\ attempt < MaxAttempts
    /\ attempt' = attempt + 1
    /\ pc' = "start"
    /\ cpc' = "idle"
    /\ error' = "none"
    /\ details' = NoDetails
    /\ todo' = <<>>
    /\ buffer' = <<>>
    /\ stageEntered' = FALSE
    /\ mergeCalls' = 0
    /\ dropCalls' = {}
    /\ dropFailed' = {}
    /\ flushStart' = NoDetails
    /\ finalBefore' = EmptyBag
    /\ conn' = "none"
    /\ connectTries' = 0
    /\ connectError' = "none"
    /\ introspection' = "none"
    /\ schema_columns' = <<>>
    /\ used' = {}
    /\ UNCHANGED <<model, source, final0, finalExists, finalUnique, final, stageExists,
                   stage, heartbeat, copied, merged, maxMerged>>
    /\ UNCHANGED <<call, nameVars, jsonVars, extraVars, columns, selectable>>

Next ==
    \/ ResumeFromHeartbeat
    \/ Connect
    \/ GetTableColumns
    \/ EnterFinalTable
    \/ EnterStageTable
    \/ ConsumeBatch
    \/ FlushCopyBegin
    \/ FlushCopyCommit
    \/ FlushCopyRaise
    \/ FlushTrack
    \/ ConsumerReturn
    \/ Cancel
    \/ Heartbeat
    \/ AwaitRunConsumer
    \/ MergeBegin
    \/ FinallyNoMerge
    \/ MergeCommit
    \/ MergeRaise
    \/ ExitStageTable
    \/ ExitFinalTable
    \/ CloseConnection
    \/ Redrive

Spec == Init /\ [][Next]_vars

\* ------------------------------------------------------------------------
\* amerge_mutable_tables on its own: any sequence of merges of staged rows
\* into one final table that has the primary key of the model.
\* ------------------------------------------------------------------------
Payloads == {1, 2}

VersionPairs(m) == IF m = "persons" THEN Versions \X Versions ELSE Versions \X {0}

\* The staging tables a COPY can have filled: per id at most one row.
StagedTables(m) ==
    {SetToBag({Row(m, id, c[id][1], c[id][2], c[id][3]) : id \in {i \in Ids : c[i] # <<>>}}) :
        c \in [Ids -> {<<>>} \cup {<<vw[1], vw[2], p>> : vw \in VersionPairs(m), p \in Payloads}]}
    \ {EmptyBag}

InitMerge ==
    /\ model \in {"persons", "sessions"}
    /\ source = [r \in Ranges |-> SourceRow(model, "user-a", r)]
    /\ finalExists = TRUE
    /\ finalUnique = primary_key(model)
    /\ final = EmptyBag
    /\ final0 = EmptyBag
    /\ stageExists = FALSE
    /\ stage = EmptyBag
    /\ attempt = 1
    /\ pc = "stage_rows"
    /\ cpc = "idle"
    /\ error = "none"
    /\ details = NoDetails
    /\ heartbeat = NoDetails
    /\ todo = <<>>
    /\ buffer = <<>>
    /\ stageEntered = FALSE
    /\ mergeCalls = 0
    /\ dropCalls = {}
    /\ dropFailed = {}
    /\ copied = {}
    /\ merged = {}
    /\ flushStart = NoDetails
    /\ maxMerged = [id \in Ids |-> 0]
    /\ finalBefore = EmptyBag
    /\ NoClient
    /\ NoNames
    /\ NoFields
    /\ NoExtra
    /\ NoJson

\* A staging table is created and filled.
StageRows ==
    /\ pc = "stage_rows"
    /\ stage' \in StagedTables(model)
    /\ stageExists' = TRUE
    /\ pc' = "merge_rows"
    /\ UNCHANGED <<model, source, final0, finalExists, finalUnique, final, attempt, cpc,
                   error, details, heartbeat, todo, buffer, stageEntered, mergeCalls,
                   dropCalls, dropFailed, copied, merged, flushStart, maxMerged,
                   finalBefore>>
    /\ UNCHANGED <<clientVars, nameVars, jsonVars, extraVars, fieldVars>>

\* amerge_mutable_tables with the activity's arguments (lines 766-773).
MergeStaged ==
    /\ pc = "merge_rows"
    /\ MergeError(finalUnique, stage, merge_key(model)) = "none"
    /\ final' = MergeTables(final, stage, merge_key(model), update_key(model),
                            table_fields(model))
    /\ maxMerged' = MaxMergedAfter(maxMerged, stage, model)
    /\ finalBefore' = final
    /\ pc' = "drop_rows"
    /\ UNCHANGED <<model, source, final0, finalExists, finalUnique, stageExists, stage,
                   attempt, cpc, error, details, heartbeat, todo, buffer, stageEntered,
                   mergeCalls, dropCalls, dropFailed, copied, merged, flushStart>>
    /\ UNCHANGED <<clientVars, nameVars, jsonVars, extraVars, fieldVars>>

\* The staging table is dropped.
DropStaged ==
    /\ pc = "drop_rows"
    /\ stage' = EmptyBag
    /\ stageExists' = FALSE
    /\ finalBefore' = EmptyBag
    /\ pc' = "stage_rows"
    /\ UNCHANGED <<model, source, final0, finalExists, finalUnique, final, attempt, cpc,
                   error, details, heartbeat, todo, buffer, stageEntered, mergeCalls,
                   dropCalls, dropFailed, copied, merged, flushStart, maxMerged>>
    /\ UNCHANGED <<clientVars, nameVars, jsonVars, extraVars, fieldVars>>

NextMerge ==
    \/ StageRows
    \/ MergeStaged
    \/ DropStaged

SpecMerge == InitMerge /\ [][NextMerge]_vars

\* ------------------------------------------------------------------------
\* PostgreSQLClient on its own: a caller that connects, leaves the connect
\* scope and calls the operations of the client in any state of it.
\* ------------------------------------------------------------------------
ClientOps ==
    {"acreate_table", "adelete_table", "aget_table_columns", "amerge_mutable_tables",
     "copy_tsv_to_postgres"}

InitClient ==
    /\ model = "none"
    /\ source = [r \in Ranges |-> SourceRow(model, "user-a", r)]
    /\ finalExists \in BOOLEAN
    /\ finalUnique = <<>>
    /\ final = EmptyBag
    /\ final0 = EmptyBag
    /\ stageExists = FALSE
    /\ stage = EmptyBag
    /\ attempt = 1
    /\ pc = "client"
    /\ cpc = "idle"
    /\ error = "none"
    /\ details = NoDetails
    /\ heartbeat = NoDetails
    /\ todo = <<>>
    /\ buffer = <<>>
    /\ stageEntered = FALSE
    /\ mergeCalls = 0
    /\ dropCalls = {}
    /\ dropFailed = {}
    /\ copied = {}
    /\ merged = {}
    /\ flushStart = NoDetails
    /\ maxMerged = [id \in Ids |-> 0]
    /\ finalBefore = EmptyBag
    /\ NoClient
    /\ NoNames
    /\ NoFields
    /\ NoExtra
    /\ NoJson

clientFrame == <<model, source, final0, finalUnique, final, stageExists, stage, attempt,
                 cpc, details, heartbeat, todo, buffer, stageEntered, mergeCalls,
                 dropCalls, dropFailed, copied, merged, flushStart, maxMerged,
                 finalBefore, nameVars, jsonVars, extraVars, fieldVars>>

\* The caller enters `async with client.connect()`.
ClientConnectBegin ==
    /\ pc = "client"
    /\ call.phase = "done"
    /\ pc' = "client_connect"
    /\ connectTries' = 0
    /\ connectError' = "none"
    /\ error' = "none"
    /\ UNCHANGED <<conn, call, finalExists, clientFrame>>

\* One connection attempt of that connect.
ClientConnect ==
    /\ pc = "client_connect"
    /\ ConnectAttempt("client_scope", "client")
    /\ UNCHANGED <<call, finalExists, clientFrame>>

\* The caller leaves the connect scope (lines 182-184).
ClientLeave ==
    /\ pc = "client_scope"
    /\ call.phase = "done"
    /\ conn' = IF ClosesOnExit(error) THEN ConnectionAfterScope ELSE conn
    /\ pc' = "client"
    /\ UNCHANGED <<connectTries, connectError, error, call, finalExists, clientFrame>>

\* The caller calls one of the operations on the destination table.
ClientCall ==
    /\ pc \in {"client", "client_scope"}
    /\ call.phase = "done"
    /\ \E op \in ClientOps : \E eok \in BOOLEAN : \E nfok \in BOOLEAN :
          LET r == IF op = "acreate_table" THEN acreate_table(conn, finalExists, eok)
                   ELSE IF op = "adelete_table" THEN adelete_table(conn, finalExists, nfok)
                   ELSE table_operation(op, conn, finalExists)
          IN /\ (op # "acreate_table" => eok)
             /\ (op # "adelete_table" => nfok)
             /\ call' = [NoCall EXCEPT !.op = op, !.exists_ok = eok, !.not_found_ok = nfok,
                                       !.connAt = conn, !.stmts = r.stmts,
                                       !.result = r.result]
             /\ finalExists' = r.exists
    /\ UNCHANGED <<pc, conn, connectTries, connectError, error, clientFrame>>

\* managed_table up to the yield (lines 308-311): the table is created when
\* create is true; when that raises, managed_table ends with the exception.
ManagedTableEnter ==
    /\ pc \in {"client", "client_scope"}
    /\ call.phase = "done"
    /\ \E create \in BOOLEAN : \E delete \in BOOLEAN :
       \E eok \in BOOLEAN : \E nfok \in BOOLEAN :
          LET mt == [NoCall EXCEPT !.op = "managed_table", !.create = create,
                                   !.delete = delete, !.exists_ok = eok,
                                   !.not_found_ok = nfok, !.connAt = conn]
              r == acreate_table(conn, finalExists, eok)
          IN IF CreatesOnEntry(create)
             THEN /\ call' = [mt EXCEPT !.createCalled = TRUE, !.stmts = r.stmts,
                                        !.result = r.result,
                                        !.phase = IF r.result = "ok" THEN "body" ELSE "done"]
                  /\ finalExists' = r.exists
             ELSE /\ call' = [mt EXCEPT !.phase = "body"]
                  /\ finalExists' = finalExists
    /\ UNCHANGED <<pc, conn, connectTries, connectError, error, clientFrame>>

\* The body of the managed_table scope runs and returns or raises.
ManagedTableBody ==
    /\ call.op = "managed_table"
    /\ call.phase = "body"
    /\ \E outcome \in {"returned", "raised"} :
          call' = [call EXCEPT !.body = outcome, !.phase = "exit",
                               !.result = IF outcome = "raised" THEN "BodyError" ELSE "ok"]
    /\ UNCHANGED <<pc, conn, connectTries, connectError, error, finalExists, clientFrame>>

\* managed_table after the yield (lines 312-315): the finally block drops the
\* table when delete is true; an exception of the DROP replaces the body's.
ManagedTableExit ==
    /\ call.op = "managed_table"
    /\ call.phase = "exit"
    /\ LET r == adelete_table(conn, finalExists, call.not_found_ok)
       IN IF DropsOnExit(call.delete, call.result)
          THEN /\ call' = [call EXCEPT !.deleteCalled = TRUE, !.phase = "done",
                                       !.stmts = @ \o r.stmts,
                                       !.result = IF r.result = "ok" THEN @ ELSE r.result]
               /\ finalExists' = r.exists
          ELSE /\ call' = [call EXCEPT !.phase = "done"]
               /\ finalExists' = finalExists
    /\ UNCHANGED <<pc, conn, connectTries, connectError, error, clientFrame>>

NextClient ==
    \/ ClientConnectBegin
    \/ ClientConnect
    \/ ClientLeave
    \/ ClientCall
    \/ ManagedTableEnter
    \/ ManagedTableBody
    \/ ManagedTableExit

SpecClient == InitClient /\ [][NextClient]_vars

\* ------------------------------------------------------------------------
\* The staging identifier (insert_into_postgres_activity, lines 694-702) on
\* its own, for a range of table names, window ends and team ids.
\* ------------------------------------------------------------------------
\* The slice bound of line 702.
IdentifierLimit == 63

\* A string is a sequence of characters; a character is written as itself
\* when it is ASCII and as its code point otherwise.  Its length in UTF-8:
Utf8Len(ch) ==
    IF ch = "U+00E9" THEN 2
    ELSE IF ch = "U+65E5" THEN 3
    ELSE IF ch = "U+1F600" THEN 4
    ELSE 1

\* Length of the encoded form of a string, in bytes.
EncodedLen(str) ==
    LET RECURSIVE Sum(_)
        Sum(i) == IF i = 0 THEN 0 ELSE Sum(i - 1) + Utf8Len(str[i])
    IN Sum(Len(str))

Repeat(ch, n) == [i \in 1..n |-> ch]

DigitChar(d) == <<"0", "1", "2", "3", "4", "5", "6", "7", "8", "9">>[d + 1]

\* str(n) of a non-negative integer, as the f-string formats team_id.
RECURSIVE Decimal(_)
Decimal(n) ==
    IF n < 10 THEN <<DigitChar(n)>>
    ELSE Append(Decimal(n \div 10), DigitChar(n % 10))

Pad2(n) == <<DigitChar(n \div 10), DigitChar(n % 10)>>

\* strftime("%Y-%m-%d_%H-%M-%S") of the parsed data_interval_end (line 694).
data_interval_end_str(end) ==
    Decimal(end.year) \o <<"-">> \o Pad2(end.month) \o <<"-">> \o Pad2(end.day)
        \o <<"_">> \o Pad2(end.hour) \o <<"-">> \o Pad2(end.minute)
        \o <<"-">> \o Pad2(end.second)

\* s[:n] of a Python str: the first n characters (code points).
Slice(str, n) == SubSeq(str, 1, IF Len(str) < n THEN Len(str) ELSE n)

\* A staging identifier without the team id.
StageTableNameWithoutTeam(name, end, team, merge) ==
    Slice(IF merge
          THEN <<"s", "t", "a", "g", "e", "_">> \o name \o <<"_">>
                   \o data_interval_end_str(end)
          ELSE name,
          IdentifierLimit)

\* Lines 698-702: stagle_table_name.
StageTableName(name, end, team, merge) ==
    Slice(IF merge
          THEN <<"s", "t", "a", "g", "e", "_">> \o name \o <<"_">>
                   \o data_interval_end_str(end) \o <<"_">> \o Decimal(team)
          ELSE name,
          IdentifierLimit)

\* The inputs tried: table names of one repeated character, ASCII or not.
TableNames ==
    {Repeat(ch, n) : ch \in {"a", "U+00E9", "U+65E5"}, n \in {1, 30, 31, 40, 80}}

WindowEnds ==
    {[year |-> 2024, month |-> 1, day |-> 2, hour |-> 3, minute |-> 4, second |-> 5],
     [year |-> 2025, month |-> 12, day |-> 31, hour |-> 23, minute |-> 0, second |-> 0]}

TeamIds == {1, 42, 123456}

InitName ==
    /\ model \in Models
    /\ source = [r \in Ranges |-> SourceRow(model, "user-a", r)]
    /\ finalExists = FALSE
    /\ finalUnique = <<>>
    /\ final = EmptyBag
    /\ final0 = EmptyBag
    /\ stageExists = FALSE
    /\ stage = EmptyBag
    /\ attempt = 1
    /\ pc = "name_inputs"
    /\ cpc = "idle"
    /\ error = "none"
    /\ details = NoDetails
    /\ heartbeat = NoDetails
    /\ todo = <<>>
    /\ buffer = <<>>
    /\ stageEntered = FALSE
    /\ mergeCalls = 0
    /\ dropCalls = {}
    /\ dropFailed = {}
    /\ copied = {}
    /\ merged = {}
    /\ flushStart = NoDetails
    /\ maxMerged = [id \in Ids |-> 0]
    /\ finalBefore = EmptyBag
    /\ NoClient
    /\ NoJson
    /\ NoFields
    /\ NoExtra
    /\ table_name \in TableNames
    /\ data_interval_end \in WindowEnds
    /\ team_id \in TeamIds
    /\ stagle_table_name = <<>>

\* Lines 694-702.
ComputeStageName ==
    /\ pc = "name_inputs"
    /\ stagle_table_name' =
           StageTableName(table_name, data_interval_end, team_id, requires_merge(model))
    /\ pc' = "name_done"
    /\ UNCHANGED <<model, source, final0, finalExists, finalUnique, final, stageExists,
                   stage, attempt, cpc, error, details, heartbeat, todo, buffer,
                   stageEntered, mergeCalls, dropCalls, dropFailed, copied, merged,
                   flushStart, maxMerged, finalBefore>>
    /\ UNCHANGED <<clientVars, table_name, data_interval_end, team_id, jsonVars, extraVars, fieldVars>>

NextName == ComputeStageName

SpecName == InitName /\ [][NextName]_vars

\* ------------------------------------------------------------------------
\* remove_invalid_json (lines 63-70 and 435-445) on its own, over byte
\* strings put together from pieces of escapes.
\* ------------------------------------------------------------------------
\* Largest number of pieces of an input.
MaxPieces == 4

\* A byte string is a sequence of bytes, each written as its character.
HexDigit ==
    {"0", "1", "2", "3", "4", "5", "6", "7", "8", "9",
     "a", "b", "c", "d", "e", "f", "A", "B", "C", "D", "E", "F"}

\* The classes [dD], [89A-Fa-f] and [c-fC-F] of the surrogate patterns.
ClassD == {"d", "D"}

Class89AF ==
    {"8", "9", "a", "b", "c", "d", "e", "f", "A", "B", "C", "D", "E", "F"}

ClassCF == {"c", "d", "e", "f", "C", "D", "E", "F"}

\* A pattern without repetition is a sequence of byte classes; it matches at
\* position i when the bytes from i on lie in its classes.
MatchesAt(str, i, pat) ==
    /\ i + Len(pat) - 1 <= Len(str)
    /\ \A k \in 1..Len(pat) : str[i + k - 1] \in pat[k]

\* \\u0000 of NULL_UNICODE_PATTERN (line 64), without the lookbehind.
NullEscape == <<{"\\"}, {"u"}, {"0"}, {"0"}, {"0"}, {"0"}>>

\* \\u[dD][89A-Fa-f][0-9A-Fa-f]{2} and \\u[dD][c-fC-F][0-9A-Fa-f]{2}.
EscapeD89AF == <<{"\\"}, {"u"}, ClassD, Class89AF, HexDigit, HexDigit>>

EscapeDCF == <<{"\\"}, {"u"}, ClassD, ClassCF, HexDigit, HexDigit>>

\* The first alternative of both surrogate patterns (lines 66 and 69).
SurrogatePair == EscapeD89AF \o EscapeDCF

\* The pattern without its lookbehind: an escaped \\u0000 matches too.
NullMatchAtNoLookbehind(str, i) == MatchesAt(str, i, NullEscape)

\* NULL_UNICODE_PATTERN (line 64) matches at i: (?<!\\) looks at the byte
\* before i in the string being searched.
NullMatchAt(str, i) ==
    /\ MatchesAt(str, i, NullEscape)
    /\ (i = 1 \/ str[i - 1] # "\\")

\* NULL_UNICODE_PATTERN.sub(b"", data) (line 440): one scan from the left,
\* every match dropped, the scan resuming after the match.
NullSub(str) ==
    LET RECURSIVE Scan(_, _)
        Scan(i, out) ==
            IF i > Len(str) THEN out
            ELSE IF NullMatchAt(str, i) THEN Scan(i + 6, out)
            ELSE Scan(i + 1, Append(out, str[i]))
    IN Scan(1, <<>>)

\* PATTERN.sub(rb"\1", data) for a surrogate pattern (lines 442-443): at each
\* position the pair is tried first and kept (group 1), then the single
\* escape, which is dropped (group 1 is empty).
SurrogateSub(str, single) ==
    LET RECURSIVE Scan(_, _)
        Scan(i, out) ==
            IF i > Len(str) THEN out
            ELSE IF MatchesAt(str, i, SurrogatePair)
                 THEN Scan(i + 12, out \o SubSeq(str, i, i + 11))
            ELSE IF MatchesAt(str, i, single) THEN Scan(i + 6, out)
            ELSE Scan(i + 1, Append(out, str[i]))
    IN Scan(1, <<>>)

\* remove_invalid_json (lines 435-445).
remove_invalid_json(str) ==
    SurrogateSub(SurrogateSub(NullSub(str), EscapeD89AF), EscapeDCF)

\* The pieces inputs are put together from: a backslash, a null escape and
\* its two halves, an ordinary byte, a high and a low surrogate escape and
\* the first four bytes of a low surrogate escape.
Pieces ==
    {<<"\\">>,
     <<"\\", "u", "0", "0", "0", "0">>,
     <<"\\", "u", "0", "0">>,
     <<"0", "0">>,
     <<"x">>,
     <<"\\", "u", "d", "8", "3", "d">>,
     <<"\\", "u", "d", "e", "0", "0">>,
     <<"\\", "u", "d", "e">>}

RECURSIVE Flatten(_)
Flatten(ps) == IF ps = <<>> THEN <<>> ELSE Head(ps) \o Flatten(Tail(ps))

ByteStrings ==
    UNION {{Flatten(ps) : ps \in [1..n -> Pieces]} : n \in 0..MaxPieces}

InitJson ==
    /\ model = "none"
    /\ source = [r \in Ranges |-> SourceRow(model, "user-a", r)]
    /\ finalExists = FALSE
    /\ finalUnique = <<>>
    /\ final = EmptyBag
    /\ final0 = EmptyBag
    /\ stageExists = FALSE
    /\ stage = EmptyBag
    /\ attempt = 1
    /\ pc = "json_input"
    /\ cpc = "idle"
    /\ error = "none"
    /\ details = NoDetails
    /\ heartbeat = NoDetails
    /\ todo = <<>>
    /\ buffer = <<>>
    /\ stageEntered = FALSE
    /\ mergeCalls = 0
    /\ dropCalls = {}
    /\ dropFailed = {}
    /\ copied = {}
    /\ merged = {}
    /\ flushStart = NoDetails
    /\ maxMerged = [id \in Ids |-> 0]
    /\ finalBefore = EmptyBag
    /\ NoClient
    /\ NoNames
    /\ NoFields
    /\ NoExtra
    /\ data \in ByteStrings
    /\ sanitized = <<>>
    /\ tsv_position = 0
    /\ copy_stream = <<>>
    /\ NoSchema

\* Line 431: the chunk is sanitized before it is written to the COPY.
RemoveInvalidJson ==
    /\ pc = "json_input"
    /\ sanitized' = remove_invalid_json(data)
    /\ pc' = "json_done"
    /\ UNCHANGED <<model, source, final0, finalExists, finalUnique, final, stageExists,
                   stage, attempt, cpc, error, details, heartbeat, todo, buffer,
                   stageEntered, mergeCalls, dropCalls, dropFailed, copied, merged,
                   flushStart, maxMerged, finalBefore>>
    /\ UNCHANGED <<clientVars, nameVars, data, tsv_position, copy_stream, schemaVars,
                   fieldVars, extraVars>>

NextJson == RemoveInvalidJson

SpecJson == InitJson /\ [][NextJson]_vars

----------------------------------------------------------------------------
\* copy_tsv_to_postgres (lines 399-432): the loop that reads tsv_file and
\* writes what it read, sanitized, to the COPY.

\* A read of at most eight bytes at a time.
read_sized(file, position) ==
    SubSeq(file, position + 1,
           IF position + 8 < Len(file) THEN position + 8 ELSE Len(file))

\* tsv_file.read (line 430) is called with no size: it returns the bytes
\* from the position of the file to its end.
read(file, position) == SubSeq(file, position + 1, Len(file))

\* The spill file when copy_tsv_to_postgres is called: the consumer has
\* written its bytes and left the position at their end.
InitCopy ==
    /\ model = "none"
    /\ source = [r \in Ranges |-> SourceRow(model, "user-a", r)]
    /\ finalExists = FALSE
    /\ finalUnique = <<>>
    /\ final = EmptyBag
    /\ final0 = EmptyBag
    /\ stageExists = FALSE
    /\ stage = EmptyBag
    /\ attempt = 1
    /\ pc = "copy_seek"
    /\ cpc = "idle"
    /\ error = "none"
    /\ details = NoDetails
    /\ heartbeat = NoDetails
    /\ todo = <<>>
    /\ buffer = <<>>
    /\ stageEntered = FALSE
    /\ mergeCalls = 0
    /\ dropCalls = {}
    /\ dropFailed = {}
    /\ copied = {}
    /\ merged = {}
    /\ flushStart = NoDetails
    /\ maxMerged = [id \in Ids |-> 0]
    /\ finalBefore = EmptyBag
    /\ NoClient
    /\ NoNames
    /\ NoFields
    /\ NoExtra
    /\ data \in ByteStrings
    /\ sanitized = <<>>
    /\ tsv_position = Len(data)
    /\ copy_stream = <<>>
    /\ NoSchema

copyFrame ==
    UNCHANGED <<model, source, final0, finalExists, finalUnique, final, stageExists,
                stage, attempt, cpc, error, details, heartbeat, todo, buffer,
                stageEntered, mergeCalls, dropCalls, dropFailed, copied, merged,
                flushStart, maxMerged, finalBefore, clientVars, nameVars, data,
                schemaVars, fieldVars, extraVars>>

\* Line 414: tsv_file.seek(0).
CopySeek ==
    /\ pc = "copy_seek"
    /\ tsv_position' = 0
    /\ pc' = "copy_read"
    /\ UNCHANGED <<sanitized, copy_stream>>
    /\ copyFrame

\* Lines 430-432, one turn of the loop: read, and when the read returned
\* bytes sanitize them and write them to the COPY.
CopyWrite ==
    /\ pc = "copy_read"
    /\ read(data, tsv_position) # <<>>
    /\ tsv_position' = tsv_position + Len(read(data, tsv_position))
    /\ sanitized' = remove_invalid_json(read(data, tsv_position))
    /\ copy_stream' = copy_stream \o sanitized'
    /\ pc' = "copy_read"
    /\ copyFrame

\* Line 430: the read returned no bytes and the loop ends.
CopyEnd ==
    /\ pc = "copy_read"
    /\ read(data, tsv_position) = <<>>
    /\ pc' = "copy_done"
    /\ UNCHANGED <<sanitized, tsv_position, copy_stream>>
    /\ copyFrame

NextCopy == CopySeek \/ CopyWrite \/ CopyEnd

SpecCopy == InitCopy /\ [][NextCopy]_vars

----------------------------------------------------------------------------
\* get_postgres_fields_from_record_schema (lines 471-519).

MaxFields == 2

\* PyArrow types of a field: the ones the function tells apart and two it
\* does not know.
PaTypes ==
    {"string", "JsonType", "int32", "int64", "uint16", "uint64", "float32",
     "float64", "bool", "timestamp[us]", "timestamp[us, tz=UTC]",
     "list<string>", "list<int64>", "binary"}

\* The argument of line 663.
known_json_columns == {"properties", "set", "set_once", "person_properties"}

FieldNames == {"properties", "set", "uuid"}

\* A list branch that does not look at the type of the values.
is_list_of_anything(type) == type \in {"list<string>", "list<int64>"}

\* Line 512: is_list(type) and is_string(type.value_type).
is_list_of_string(type) == type = "list<string>"

\* The if/elif chain of lines 484-516 for one field; "TypeError" when the
\* chain ends in the raise of line 516.
pg_type(pa_field, known) ==
    LET type == pa_field.type
        is_string == type = "string"
        is_JsonType == type = "JsonType"
        is_signed_integer == type \in {"int32", "int64"}
        is_unsigned_integer == type \in {"uint16", "uint64"}
        is_floating == type \in {"float32", "float64"}
        is_timestamp == type \in {"timestamp[us]", "timestamp[us, tz=UTC]"}
    IN  IF is_string \/ is_JsonType
            THEN IF pa_field.name \in known THEN "JSONB" ELSE "TEXT"
        ELSE IF is_signed_integer \/ is_unsigned_integer
            THEN IF type = "uint64" \/ type = "int64" THEN "BIGINT" ELSE "INTEGER"
        ELSE IF is_floating
            THEN IF type = "float64" THEN "DOUBLE PRECISION" ELSE "REAL"
        ELSE IF type = "bool" THEN "BOOLEAN"
        ELSE IF is_timestamp
            THEN IF type = "timestamp[us, tz=UTC]" THEN "TIMESTAMPTZ" ELSE "TIMESTAMP"
        ELSE IF is_list_of_string(type) THEN "TEXT[]"
        ELSE "TypeError"

\* The loop of lines 481-519: the fields in the order of the schema, each
\* appended to pg_schema; the raise of line 516 leaves the function with the
\* name and the type of the field and without the list built so far.
get_postgres_fields_from_record_schema(schema, known) ==
    LET RECURSIVE Loop(_, _)
        Loop(i, out) ==
            IF i > Len(schema) THEN [raised |-> <<>>, returned |-> out]
            ELSE IF pg_type(schema[i], known) = "TypeError"
                 THEN [raised |-> <<"TypeError", schema[i].name, schema[i].type>>,
                       returned |-> <<>>]
            ELSE Loop(i + 1, Append(out, <<schema[i].name, pg_type(schema[i], known)>>))
    IN Loop(1, <<>>)

\* Schemas of up to MaxFields fields; the names of a schema differ.
Schemas ==
    UNION {{sch \in [1..n -> [name : FieldNames, type : PaTypes]] :
                \A i, j \in 1..n : sch[i].name = sch[j].name => i = j}
           : n \in 0..MaxFields}

InitSchema ==
    /\ model = "none"
    /\ source = [r \in Ranges |-> SourceRow(model, "user-a", r)]
    /\ finalExists = FALSE
    /\ finalUnique = <<>>
    /\ final = EmptyBag
    /\ final0 = EmptyBag
    /\ stageExists = FALSE
    /\ stage = EmptyBag
    /\ attempt = 1
    /\ pc = "schema_input"
    /\ cpc = "idle"
    /\ error = "none"
    /\ details = NoDetails
    /\ heartbeat = NoDetails
    /\ todo = <<>>
    /\ buffer = <<>>
    /\ stageEntered = FALSE
    /\ mergeCalls = 0
    /\ dropCalls = {}
    /\ dropFailed = {}
    /\ copied = {}
    /\ merged = {}
    /\ flushStart = NoDetails
    /\ maxMerged = [id \in Ids |-> 0]
    /\ finalBefore = EmptyBag
    /\ NoClient
    /\ NoNames
    /\ NoFields
    /\ NoExtra
    /\ data = <<>>
    /\ sanitized = <<>>
    /\ tsv_position = 0
    /\ copy_stream = <<>>
    /\ record_schema \in Schemas
    /\ pg_schema = NotCalled

\* Lines 661-664: the call of the function on the schema of the records.
GetPostgresFields ==
    /\ pc = "schema_input"
    /\ pg_schema' = get_postgres_fields_from_record_schema(record_schema, known_json_columns)
    /\ pc' = "schema_done"
    /\ UNCHANGED <<model, source, final0, finalExists, finalUnique, final, stageExists,
                   stage, attempt, cpc, error, details, heartbeat, todo, buffer,
                   stageEntered, mergeCalls, dropCalls, dropFailed, copied, merged,
                   flushStart, maxMerged, finalBefore, clientVars, nameVars, data,
                   sanitized, tsv_position, copy_stream, record_schema, fieldVars,
                   extraVars>>

NextSchema == GetPostgresFields

SpecSchema == InitSchema /\ [][NextSchema]_vars

\* ------------------------------------------------------------------------
\* Properties of the activity (specification Spec)
\* ------------------------------------------------------------------------
MergeModel == model \in {"persons", "sessions"}

AttemptEnded == pc \in {"returned", "raised"}

SourceRows == {source[r] : r \in Window}

\* The final table one uninterrupted attempt leaves: every batch of the
\* window copied into staging and merged once.
UninterruptedFinal ==
    MergeTables(final0, SetToBag(SourceRows), merge_key(model), update_key(model),
                table_fields(model))

\* C1: whatever failed attempts and re-drives came before, when an attempt
\* succeeds the final table holds every source row of the window: for persons
\* and sessions (with one row per merge key in the window) it equals the
\* table of one uninterrupted attempt, for the other models every source row
\* is there at least once and what the table held before is kept.
C1_ResumeIdempotence ==
    (pc = "returned") =>
        IF MergeModel
        THEN UniqueOn(merge_key(model), SourceRows) => final = UninterruptedFinal
        ELSE /\ \A r \in Window : CopiesIn(source[r], final) >= 1
             /\ \A x \in BagToSet(final0) : CopiesIn(x, final) >= CopiesIn(x, final0)

\* C2: for a merge model every range in heartbeat_details.done_ranges has
\* had its rows merged from staging into final.
C2_DoneRangesAreMerged ==
    MergeModel => details.done_ranges \subseteq merged

\* C3: flush changes records_completed and done_ranges only after the COPY of
\* that flush has committed, adding exactly the rows and ranges of the flush;
\* while the COPY is open they are as they were when the flush began, and once
\* the COPY has raised they are not changed any more in the attempt.
C3_TrackOnlyAfterCopyCommit ==
    [][/\ (cpc = "copying") => (details = flushStart)
       /\ (details' # details /\ pc' # "start" /\ pc # "start") =>
              /\ cpc = "copied"
              /\ SeqToSet(buffer) \subseteq copied
              /\ details'.done_ranges = details.done_ranges \cup SeqToSet(buffer)
              /\ details'.records_completed = details.records_completed + Len(buffer)
       /\ (cpc = "copying" /\ cpc' = "failed") => (details' = details)
       /\ (cpc = "failed" /\ pc' # "start") => (details' = details)]_vars

\* C3 witness: a second flush whose COPY raised after a first flush was
\* tracked; the details are those of the beginning of the failed flush.
C3_Witness ==
    /\ cpc = "failed"
    /\ error \in DbErrors \cup {"UniqueViolation"}
    /\ buffer # <<>>
    /\ details.done_ranges # {}
    /\ details = flushStart

\* C4: once amerge_mutable_tables has been called in an attempt, the consumer
\* has ended: no COPY is open and none can start.
C4_MergeAfterConsumer ==
    (mergeCalls > 0 \/ pc = "merging") => cpc \in {"done", "failed"}

\* C4 witness: the merge is running after COPYs of this attempt committed.
C4_Witness ==
    /\ pc = "merging"
    /\ cpc = "done"
    /\ details.done_ranges # {}

\* C5: an attempt that reached the consumer calls amerge_mutable_tables
\* exactly once when the model is persons or sessions, whether run_consumer
\* returned or raised, and never for another model.
C5_MergeExactlyOnce ==
    /\ mergeCalls <= 1
    /\ (model \notin {"persons", "sessions"}) => mergeCalls = 0
    /\ (AttemptEnded /\ cpc # "idle" /\ model \in {"persons", "sessions"}) => mergeCalls = 1

\* C5 witness: run_consumer raised in a sessions export and the merge was
\* called once.
C5_Witness ==
    /\ AttemptEnded
    /\ cpc = "failed"
    /\ model = "sessions"
    /\ mergeCalls = 1

\* Some row written to the spill file has the merge key of a staged row or
\* of another row of the file.
BufferRepeatsKey == CopyViolatesUnique(stage, merge_key(model), BufferRows)

MergeStep == pc = "merge_rows" /\ pc' = "drop_rows"

SameEntity(a, b) == a.team_id = b.team_id /\ a[IdField(model)] = b[IdField(model)]

\* Some update-key column of a is strictly greater than that of b.
SomeKeyGreater(a, b) ==
    IF model = "persons"
    THEN a.person_version > b.person_version
         \/ a.person_distinct_id_version > b.person_distinct_id_version
    ELSE a.end_timestamp > b.end_timestamp

\* Every update-key column of a is less than or equal to that of b.
AllKeysAtMost(a, b) ==
    IF model = "persons"
    THEN a.person_version <= b.person_version
         /\ a.person_distinct_id_version <= b.person_distinct_id_version
    ELSE a.end_timestamp <= b.end_timestamp

\* C7 as claimed: the person_version of a final row is the largest
\* person_version among the rows merged so far for its (team_id, distinct_id).
C7_FinalVersionIsMax ==
    (model = "persons") =>
        \A f \in BagToSet(final) : f.person_version = maxMerged[f.distinct_id]

\* C7 amended: a staged persons row with a strictly lower person_version
\* than the final row of its (team_id, distinct_id) replaces that row exactly
\* when its person_distinct_id_version is strictly greater, so that the
\* person_version of a final row goes down only together with a strictly
\* greater person_distinct_id_version.
C7_LowerVersionOverwritesOnlyWithNewerDistinctIdVersion ==
    [][(MergeStep /\ model = "persons") =>
          /\ \A x \in BagToSet(stage) : \A f \in BagToSet(final) :
                 (SameEntity(x, f) /\ x.person_version < f.person_version) =>
                     IF x.person_distinct_id_version > f.person_distinct_id_version
                     THEN x \in BagToSet(final') /\ f \notin BagToSet(final')
                     ELSE f \in BagToSet(final') /\ x \notin BagToSet(final')
          /\ \A f \in BagToSet(final) : \A g \in BagToSet(final') :
                 (SameEntity(f, g) /\ g.person_version < f.person_version) =>
                     g.person_distinct_id_version > f.person_distinct_id_version]_vars

\* C7 witness: the last merge lowered the person_version of a final row below
\* the largest one merged for its distinct_id.
C7_Witness ==
    /\ model = "persons"
    /\ pc = "drop_rows"
    /\ \E f \in BagToSet(final) : \E b \in BagToSet(finalBefore) :
          /\ SameEntity(f, b)
          /\ f.person_version < b.person_version
          /\ f.person_version < maxMerged[f.distinct_id]
          /\ f \in BagToSet(stage)

\* C8: a staged row whose update-key columns are all at most those of the
\* final row with its merge key leaves that row as it is, and a merge of
\* nothing but such rows leaves the final table unchanged.
C8_ReplayLeavesFinalUnchanged ==
    [][MergeStep =>
          /\ \A x \in BagToSet(stage) : \A f \in BagToSet(final) :
                 (SameEntity(x, f) /\ AllKeysAtMost(x, f)) => CopiesIn(f, final') = 1
          /\ (\A x \in BagToSet(stage) : \E f \in BagToSet(final) :
                  SameEntity(x, f) /\ AllKeysAtMost(x, f)) => final' = final]_vars

\* C8 witness: the last merge replayed rows that differ from the final rows
\* they met, and the final table is what it was before.
C8_Witness ==
    /\ pc = "drop_rows"
    /\ final = finalBefore
    /\ final # EmptyBag
    /\ \E x \in BagToSet(stage) : x \notin BagToSet(final)
    /\ \A x \in BagToSet(stage) : \E f \in BagToSet(finalBefore) :
          SameEntity(x, f) /\ AllKeysAtMost(x, f)

\* C9: the merge inserts a staged row that has no final row with its merge
\* key; it replaces a final row by the staged row with its merge key if and
\* only if some update-key column of the staged row is strictly greater, and
\* leaves it unchanged otherwise; it touches no other row.
C9_InsertOrUpdateWhenGreater ==
    [][MergeStep =>
          /\ \A x \in BagToSet(stage) :
                 LET M == {f \in BagToSet(final) : SameEntity(x, f)}
                 IN IF M = {} THEN CopiesIn(x, final') = 1
                    ELSE \A f \in M :
                             IF SomeKeyGreater(x, f)
                             THEN CopiesIn(x, final') = 1 /\ CopiesIn(f, final') = 0
                             ELSE CopiesIn(f, final') = 1 /\ (x # f => CopiesIn(x, final') = 0)
          /\ \A f \in BagToSet(final) :
                 (\A x \in BagToSet(stage) : ~SameEntity(x, f)) => CopiesIn(f, final') = 1
          /\ BagToSet(final') \subseteq BagToSet(final) \cup BagToSet(stage)]_vars

\* C9 witness: the last merge inserted one row and replaced another whose
\* person_version it exceeds while its person_distinct_id_version is lower.
C9_Witness ==
    /\ model = "persons"
    /\ pc = "drop_rows"
    /\ \E x \in BagToSet(stage) :
          /\ x \in BagToSet(final)
          /\ \A b \in BagToSet(finalBefore) : ~SameEntity(x, b)
    /\ \E x \in BagToSet(stage) : \E b \in BagToSet(finalBefore) :
          /\ SameEntity(x, b)
          /\ x.person_version > b.person_version
          /\ x.person_distinct_id_version < b.person_distinct_id_version
          /\ x \in BagToSet(final)
          /\ b \notin BagToSet(final)

C25_StagingAndMergeOnlyForPersonsAndSessions ==
    [][/\ (cpc = "copying" /\ cpc' = "copied") =>
              IF model \in {"persons", "sessions"}
              THEN stage' # stage /\ final' = final /\ stageExists
              ELSE final' # final /\ stage' = stage /\ ~stageExists
       /\ (pc = "finally" /\ pc' # pc) =>
              (mergeCalls' = mergeCalls + 1 <=> model \in {"persons", "sessions"})
       /\ mergeCalls' > mergeCalls => pc = "finally"
       /\ model = "persons" =>
              /\ merge_key(model) = <<"team_id", "distinct_id">>
              /\ update_key(model) = <<"person_version", "person_distinct_id_version">>
       /\ model = "sessions" =>
              /\ merge_key(model) = <<"team_id", "session_id">>
              /\ update_key(model) = <<"end_timestamp">>]_vars

\* C25 witness: an export of sessions has copied every range into the
\* staging table and merged it into the final table.
C25_Witness ==
    /\ model = "sessions"
    /\ copied = Ranges
    /\ mergeCalls = 1
    /\ merged # {}
    /\ pc = "returned"

\* C26: when aget_table_columns ends with InsufficientPrivilege or with
\* UndefinedTable the activity goes on to the creation of the final table
\* without an error, and every field list it hands on in the attempt is the
\* full derived list; a table that was missing is created with the columns
\* of that list.  Any other error of aget_table_columns is raised: the
\* attempt ends, by way of closing the connection, with no table created
\* and no field list handed on.
C26_IntrospectionErrorsTolerated ==
    [][/\ (pc = "get_columns" /\ introspection' \in {"InsufficientPrivilege", "UndefinedTable"}) =>
              /\ pc' = "create_final"
              /\ error' = "none"
              /\ schema_columns' = table_fields(model)
       /\ (introspection \in {"InsufficientPrivilege", "UndefinedTable"}) =>
              \A u \in used' : u[2] = table_fields(model)
       /\ (introspection = "UndefinedTable" /\ pc = "create_final" /\ finalExists') =>
              columns' = SeqToSet(table_fields(model))
       /\ (pc = "get_columns" /\ introspection' \in DbErrors) =>
              /\ pc' = "close"
              /\ error' = introspection'
       /\ (introspection \in DbErrors) =>
              /\ pc' \in {"close", "raised", "start"}
              /\ used' = {}
              /\ finalExists' = finalExists
              /\ stageExists' = stageExists
              /\ columns' = columns]_vars

\* C26 witness: the destination, a table of an older schema, could not be
\* read; the export copied every range with the full derived column list
\* and returned.
C26_Witness ==
    /\ introspection = "InsufficientPrivilege"
    /\ columns = older_columns(model)
    /\ <<"copy", table_fields(model)>> \in used
    /\ copied = Ranges
    /\ pc = "returned"

\* C27: after aget_table_columns has returned the columns of the
\* destination, every field list the activity hands on (to the creation of
\* the final and of the staging table, to the writer of the spill file, to
\* the COPY and to the merge) is the derived list without the fields that
\* are no column of the destination, in the order of the derived list; no
\* field that the destination lacks is in a COPY column list.
C27_FieldsAreLiveColumns ==
    (introspection = "ok") =>
        /\ finalExists
        /\ \A u \in used :
              /\ u[2] = SelectSeq(table_fields(model), LAMBDA field : field \in columns)
              /\ SeqToSet(u[2]) \subseteq columns

\* C27 witness: the destination of a persons export is a table of an older
\* schema; the export created the staging table, wrote and copied the
\* spill files, merged and returned.
C27_Witness ==
    /\ introspection = "ok"
    /\ model = "persons"
    /\ columns = older_columns(model)
    /\ {u[1] : u \in used} = {"create_final", "create_stage", "field_names", "copy", "merge"}
    /\ copied = Ranges
    /\ pc = "returned"

\* C28: when the producer has nothing to export and ends without a schema,
\* the activity returns the records_completed of the details it restored
\* from the last heartbeat, which is 0 on a first attempt; it opens no
\* connection, creates and drops no table, copies and merges nothing.
C28_NoSchemaReturnsRestoredCount ==
    [][(pc = "start" /\ Window \subseteq heartbeat.done_ranges) =>
          /\ pc' = "returned"
          /\ details'.records_completed = heartbeat.records_completed
          /\ (attempt = 1) => details'.records_completed = 0
          /\ conn = "none" /\ conn' = "none"
          /\ mergeCalls' = 0 /\ dropCalls' = {} /\ used' = {}
          /\ UNCHANGED <<finalExists, finalUnique, final, columns, stageExists, stage,
                         copied, merged, heartbeat>>]_vars

\* C28 witness: a second attempt found every range of the window done and
\* returned the count of the first attempt without a connection.
C28_Witness ==
    /\ attempt = 2
    /\ pc = "returned"
    /\ conn = "none"
    /\ Window # {}
    /\ details.records_completed = NRanges
    /\ mergeCalls = 0 /\ dropCalls = {} /\ used = {}

\* C29: no step of an attempt takes a range out of done_ranges; the done
\* ranges handed to the orchestrator only grow, also from one attempt to the
\* next; an attempt starts from the done ranges of the last heartbeat; and
\* the done ranges are always ranges of the requested window.
C29_DoneRangesOnlyGrow ==
    [][/\ (attempt' = attempt) => details.done_ranges \subseteq details'.done_ranges
       /\ heartbeat.done_ranges \subseteq heartbeat'.done_ranges
       /\ (pc = "start" /\ pc' # "start") =>
              heartbeat.done_ranges \subseteq details'.done_ranges
       /\ details'.done_ranges \subseteq Ranges
       /\ heartbeat'.done_ranges \subseteq Ranges]_vars

\* C29 witness: the second attempt started from the range the first one had
\* heartbeated and has flushed the other range too.
C29_Witness ==
    /\ attempt = 2
    /\ heartbeat.done_ranges = {1}
    /\ details.done_ranges = Ranges
    /\ cpc = "consume"

\* The rows flushed for a set of ranges: the batch of each range is one row.
RowsFlushed(ranges) == Cardinality(ranges)

\* C30: in the details of every state, and so in every heartbeat and in the
\* result of the activity, records_completed is the number of rows flushed
\* for the ranges in done_ranges.
C30_RecordsCompletedMatchesDoneRanges ==
    /\ details.records_completed = RowsFlushed(details.done_ranges)
    /\ heartbeat.records_completed = RowsFlushed(heartbeat.done_ranges)

\* C30 witness: a resumed attempt has returned; the count restored from the
\* heartbeat of the first attempt and the rows of its own flush add up to
\* the rows of the window.
C30_Witness ==
    /\ attempt = 2
    /\ pc = "returned"
    /\ conn = "closed"
    /\ heartbeat.done_ranges # {}
    /\ details.done_ranges = Ranges
    /\ details.records_completed = NRanges

\* C12: in a merge-model attempt the staging table exists only while the
\* final table exists, the scope of the staging table is entered inside the
\* scope of the final table, and adelete_table has run for the staging table
\* before the scope of the final table is left.
C12_StageLifetimeInsideFinal ==
    /\ stageExists => finalExists
    /\ stageEntered => pc \notin {"start", "connect", "get_columns", "create_final", "create_stage"}
    /\ (MergeModel /\ stageEntered /\ pc \in {"exit_final", "close", "returned", "raised"})
           => "stage" \in dropCalls

\* C12 witness: in the first attempt of a merge model the staging table was
\* created, merged and dropped, and the scope of the final table, which
\* exists, is about to be left.
C12_Witness ==
    /\ MergeModel
    /\ attempt = 1
    /\ pc = "exit_final"
    /\ stageEntered
    /\ "stage" \in dropCalls
    /\ ~stageExists
    /\ finalExists
    /\ merged = Ranges

\* C15: a merge into a final table without a unique index on the merge key
\* never commits: the merge statement raises MissingPrimaryKeyError (unless
\* the statement is cancelled or fails for want of disk space first); and an
\* attempt that failed with MissingPrimaryKeyError is followed by no other.
C15_MissingPrimaryKeyNotRetried ==
    [][/\ (pc = "merging" /\ finalUnique # merge_key(model) /\ pc' # pc) =>
              /\ final' = final
              /\ MergeError(finalUnique, stage, merge_key(model)) = "MissingPrimaryKeyError"
              /\ error' \in {"MissingPrimaryKeyError"} \cup DbErrors
       /\ (pc = "raised" /\ error = "MissingPrimaryKeyError") =>
              (attempt' = attempt /\ pc' = pc)]_vars

\* C15 witness: the first attempt of a merge model ended with
\* MissingPrimaryKeyError after its one merge call, with rows staged.
C15_Witness ==
    /\ MergeModel
    /\ attempt = 1
    /\ pc = "raised"
    /\ error = "MissingPrimaryKeyError"
    /\ mergeCalls = 1
    /\ copied = Ranges
    /\ finalUnique # merge_key(model)
    /\ final = final0

\* C16: connect makes a connection attempt only while fewer than 5 have
\* failed; it makes another one only after OperationalError or
\* ConnectionTimeout; the attempt that succeeds enters the body with the
\* connection open; and when the fifth attempt fails with one of the two
\* errors, connect raises PostgreSQLConnectionError, the body is not entered
\* and _connection is still None.
C16_ConnectRetriesAtMostFive ==
    [][(pc = "connect") =>
          /\ connectTries < 5
          /\ connectTries' <= 5
          /\ (pc' = "connect" /\ connectTries' # connectTries) =>
                 connectError' \in {"OperationalError", "ConnectionTimeout"}
          /\ (connectError' = "none" /\ pc' # pc) =>
                 (pc' = "get_columns" /\ conn' = "open")
          /\ (pc' = "get_columns") => connectError' = "none"
          /\ (connectTries' = 5) =>
                 /\ pc' = "raised"
                 /\ conn' = "none"
                 /\ connectError' \in {"OperationalError", "ConnectionTimeout"} =>
                        error' = "PostgreSQLConnectionError"]_vars

\* C16 witness: five attempts failed, the last one with a timeout, and the
\* attempt of the activity ended with PostgreSQLConnectionError, unconnected
\* and with no table touched.
C16_Witness ==
    /\ pc = "raised"
    /\ connectTries = 5
    /\ connectError = "ConnectionTimeout"
    /\ error = "PostgreSQLConnectionError"
    /\ conn = "none"
    /\ dropCalls = {}
    /\ copied = {}

\* C19: an attempt of the activity that has ended, by return or by any
\* exception, has no open connection: unless connect itself failed or the
\* attempt returned before connecting (nothing was left to export), the
\* connection connect established is closed; and the connection is open
\* throughout the body of the connect scope.
C19_ConnectionClosedOnExit ==
    /\ AttemptEnded => conn # "open"
    /\ (pc = "raised" /\ connectError = "none") => conn = "closed"
    /\ (pc = "returned" /\ conn # "closed") =>
           (Window \subseteq heartbeat.done_ranges /\ mergeCalls = 0 /\ dropCalls = {})
    /\ (conn = "closed") => AttemptEnded
    /\ (pc \in {"get_columns", "create_final", "create_stage", "run_consumer", "finally",
                "merging", "exit_stage", "exit_final", "close"}) => conn = "open"

\* C19 witness: the attempt was cancelled while the consumer ran, failed with
\* CancelledError, and its connection is closed.
C19_Witness ==
    /\ pc = "raised"
    /\ error = "CancelledError"
    /\ conn = "closed"
    /\ cpc = "failed"

\* ------------------------------------------------------------------------
\* Properties of the client (specification SpecClient)
\* ------------------------------------------------------------------------
ManagedCall == call.op = "managed_table"

\* C13: managed_table calls acreate_table before the body if and only if
\* create is true, and the table then exists while the body runs on an open
\* connection; once the body has run, by return or by exception, it calls
\* adelete_table if and only if delete is true; when the creation raises, the
\* body does not run and adelete_table is not called.
C13_ManagedTableCreatesAndDrops ==
    ManagedCall =>
        /\ call.createCalled = call.create
        /\ (call.phase = "body" /\ call.create /\ conn = "open") => finalExists
        /\ (call.phase = "done" /\ call.body # "not_run") => (call.deleteCalled = call.delete)
        /\ (call.phase # "done") => ~call.deleteCalled
        /\ (call.phase = "done" /\ call.body = "not_run") =>
               (call.createCalled /\ call.result # "ok" /\ ~call.deleteCalled)

\* C13 witness: a managed_table with create and delete on an open connection
\* whose body raised: the table was created and has been dropped.
C13_Witness ==
    /\ ManagedCall
    /\ call.phase = "done"
    /\ call.create /\ call.delete
    /\ call.connAt = "open"
    /\ call.body = "raised"
    /\ call.stmts = <<"CREATE TABLE IF NOT EXISTS", "DROP TABLE IF EXISTS">>
    /\ ~finalExists

CallEnded == call.op # "none" /\ call.phase = "done"

\* C17 as stated: every operation called on a client that never connected,
\* managed_table included, fails with PostgreSQLConnectionError and sends no
\* statement.
C17_EveryOperationFailsUnconnected ==
    (CallEnded /\ call.connAt = "none") =>
        (call.result = "PostgreSQLConnectionError" /\ call.stmts = <<>>)

\* C17, amended: on a client that never connected no operation sends a
\* statement; acreate_table, adelete_table, aget_table_columns,
\* amerge_mutable_tables and copy_tsv_to_postgres fail with
\* PostgreSQLConnectionError; managed_table fails with it exactly when create
\* or delete is true, and with create false its body runs first.
C17_UnconnectedOperationsFail ==
    (CallEnded /\ call.connAt = "none") =>
        /\ call.stmts = <<>>
        /\ (call.op \in ClientOps) => call.result = "PostgreSQLConnectionError"
        /\ ManagedCall =>
               /\ (call.result = "PostgreSQLConnectionError") <=> (call.create \/ call.delete)
               /\ (call.body = "not_run") <=> call.create

\* C17 witness: amerge_mutable_tables was called on a client that never
\* connected and failed with PostgreSQLConnectionError.
C17_Witness ==
    /\ CallEnded
    /\ call.op = "amerge_mutable_tables"
    /\ call.connAt = "none"
    /\ conn = "none"
    /\ call.result = "PostgreSQLConnectionError"
    /\ call.stmts = <<>>

\* C18 as stated: an operation called after the connect scope has been left
\* is rejected as it is before connecting, with PostgreSQLConnectionError.
C18_ClosedRejectsLikeUnconnected ==
    (CallEnded /\ call.op \in ClientOps /\ call.connAt = "closed") =>
        call.result = "PostgreSQLConnectionError"

\* C18, amended: _connection becomes a connection only by an attempt of
\* connect and is closed, not reset, when the connect scope is left (a later
\* connect replaces it); an operation sends a statement only while the
\* connection is open; before the first connection it is rejected by the
\* client with PostgreSQLConnectionError, and after the scope has been left
\* by the driver with OperationalError.
C18_OperationsNeedOpenConnection ==
    [][/\ (conn' # conn) =>
              \/ (pc = "client_connect" /\ conn' = "open" /\ pc' = "client_scope")
              \/ (pc = "client_scope" /\ conn = "open" /\ conn' = "closed" /\ pc' = "client")
       /\ (pc = "client_scope" /\ pc' = "client") => conn' = "closed"
       /\ (pc = "client_scope") => conn = "open"
       /\ (call.phase = "done" /\ call' # call /\ call'.stmts # <<>>) => conn = "open"
       /\ (call.phase # "done" /\ call'.stmts # call.stmts) => conn = "open"
       /\ (call' # call /\ call'.op \in ClientOps) =>
              /\ (conn = "none") => call'.result = "PostgreSQLConnectionError"
              /\ (conn = "closed") => call'.result = "OperationalError"
              /\ (conn = "open") =>
                     call'.result \notin {"PostgreSQLConnectionError", "OperationalError"}]_vars

\* C18 witness: acreate_table was called after the connect scope had been
\* left; it sent nothing and failed with OperationalError.
C18_Witness ==
    /\ CallEnded
    /\ call.op = "acreate_table"
    /\ call.connAt = "closed"
    /\ pc = "client"
    /\ call.result = "OperationalError"
    /\ call.stmts = <<>>

\* ------------------------------------------------------------------------
\* Properties of the staging identifier (specification SpecName)
\* ------------------------------------------------------------------------
\* C14: the staging identifier of a merge model is at most 63 bytes long in
\* its encoded form, whatever characters table_name holds, and exactly 63
\* bytes long for a table_name of 80 ASCII characters.
C14_StagingIdentifierFitsIn63Bytes ==
    (pc = "name_done" /\ requires_merge(model)) =>
        /\ EncodedLen(stagle_table_name) <= 63
        /\ (table_name = Repeat("a", 80)) => (EncodedLen(stagle_table_name) = 63)

\* ------------------------------------------------------------------------
\* Properties of the sanitizer (specification SpecJson)
\* ------------------------------------------------------------------------
\* The string holds a null escape that no backslash precedes.
HasUnescapedNull(str) == \E i \in 1..Len(str) : NullMatchAt(str, i)

\* C20: what remove_invalid_json returns holds no \u0000 escape that is not
\* immediately preceded by a backslash.
C20_NoUnescapedNullRemains ==
    (pc = "json_done") => ~HasUnescapedNull(sanitized)

\* The escapes of the surrogate code points: \uD800-\uDBFF (high) and
\* \uDC00-\uDFFF (low), in either letter case.
HighSurrogateAt(str, i) ==
    MatchesAt(str, i, <<{"\\"}, {"u"}, ClassD, {"8", "9", "a", "b", "A", "B"},
                        HexDigit, HexDigit>>)

LowSurrogateAt(str, i) == MatchesAt(str, i, EscapeDCF)

\* C21: in what remove_invalid_json returns, every high surrogate escape is
\* immediately followed by a low surrogate escape and every low surrogate
\* escape is immediately preceded by a high surrogate escape.
C21_NoUnpairedSurrogateRemains ==
    (pc = "json_done") =>
        \A i \in 1..Len(sanitized) :
            /\ HighSurrogateAt(sanitized, i) => LowSurrogateAt(sanitized, i + 6)
            /\ LowSurrogateAt(sanitized, i) => (i > 6 /\ HighSurrogateAt(sanitized, i - 6))

\* The bytes of str at the positions of keep, in their order.
RECURSIVE BytesAt(_, _, _)
BytesAt(str, keep, i) ==
    IF i > Len(str) THEN <<>>
    ELSE (IF i \in keep THEN <<str[i]>> ELSE <<>>) \o BytesAt(str, keep, i + 1)

\* str without the 6-byte escapes that start at the positions of starts.
WithoutEscapes(str, starts) ==
    BytesAt(str, {i \in 1..Len(str) : \A j \in starts : i < j \/ i > j + 5}, 1)

\* A surrogate escape of str that is not half of a high+low pair.
UnpairedSurrogateAt(str, i) ==
    \/ HighSurrogateAt(str, i) /\ ~LowSurrogateAt(str, i + 6)
    \/ LowSurrogateAt(str, i) /\ ~(i > 6 /\ HighSurrogateAt(str, i - 6))

\* The escapes of str that may be deleted: unescaped \u0000 escapes and
\* unpaired surrogate escapes.
InvalidEscapes(str) ==
    {i \in 1..Len(str) : NullMatchAt(str, i) \/ UnpairedSurrogateAt(str, i)}

\* C22 (as stated): remove_invalid_json deletes nothing but unescaped \u0000
\* escapes and unpaired surrogate escapes of its input: the output is the
\* input without some of them, every other byte kept in place and in order.
C22_DeletesOnlyInvalidEscapes ==
    (pc = "json_done") =>
        \E starts \in SUBSET InvalidEscapes(data) :
            sanitized = WithoutEscapes(data, starts)

\* a is b with some of its bytes left out.
IsSubsequence(a, b) ==
    LET RECURSIVE Scan(_, _)
        Scan(i, j) ==
            IF i > Len(a) THEN TRUE
            ELSE IF j > Len(b) THEN FALSE
            ELSE IF a[i] = b[j] THEN Scan(i + 1, j + 1)
            ELSE Scan(i, j + 1)
    IN Scan(1, 1)

\* The valid high+low surrogate pairs and the already-escaped \\u0000 of str.
SurrogatePairs(str) ==
    {i \in 1..Len(str) : HighSurrogateAt(str, i) /\ LowSurrogateAt(str, i + 6)}

EscapedNulls(str) ==
    {i \in 1..Len(str) : MatchesAt(str, i, <<{"\\"}>> \o NullEscape)}

\* C22 (amended): the output is the input with bytes left out and none moved;
\* it holds as many valid surrogate pairs and as many escaped \\u0000 as the
\* input; an input with no unescaped \u0000 and no unpaired surrogate escape
\* is returned as it is.
C22_KeepsPairsAndEscapedNulls ==
    (pc = "json_done") =>
        /\ IsSubsequence(sanitized, data)
        /\ Cardinality(SurrogatePairs(sanitized)) >= Cardinality(SurrogatePairs(data))
        /\ Cardinality(EscapedNulls(sanitized)) >= Cardinality(EscapedNulls(data))
        /\ (InvalidEscapes(data) = {} => sanitized = data)

\* An input with a valid pair and an unescaped \u0000 went through the
\* sanitizer, which deleted some of its bytes.
C22_Witness ==
    /\ pc = "json_done"
    /\ SurrogatePairs(data) # {}
    /\ \E i \in 1..Len(data) : NullMatchAt(data, i)
    /\ Len(sanitized) < Len(data)
    /\ SurrogatePairs(sanitized) # {}

----------------------------------------------------------------------------
\* Properties of copy_tsv_to_postgres (SpecCopy).

\* C23: whatever the size of the spill file, what copy_tsv_to_postgres has
\* written to the COPY when its loop ends is remove_invalid_json of the whole
\* content of the file, and every call of remove_invalid_json was given the
\* file from a position where the previous call ended to its end, so that no
\* escape is split between two calls.
C23_CopyWritesSanitizedWholeFile ==
    /\ (pc = "copy_done") => copy_stream = remove_invalid_json(data)
    /\ (pc = "copy_read" /\ tsv_position > 0) =>
            /\ tsv_position = Len(data)
            /\ sanitized = remove_invalid_json(data)

\* The loop ended on a file that holds a surrogate pair and an unpaired
\* surrogate escape, which the sanitizer removed.
C23_Witness ==
    /\ pc = "copy_done"
    /\ SurrogatePairs(data) # {}
    /\ Len(data) > 12
    /\ copy_stream # data
    /\ copy_stream # <<>>

----------------------------------------------------------------------------
\* Properties of get_postgres_fields_from_record_schema (SpecSchema).

\* The mapping as the claim words it; every type it does not name is
\* unsupported.
ClaimedType(type, name) ==
    CASE type = "string" -> IF name \in known_json_columns THEN "JSONB" ELSE "TEXT"
      [] type \in {"int64", "uint64"} -> "BIGINT"
      [] type \in {"int32", "uint16"} -> "INTEGER"
      [] type = "float64" -> "DOUBLE PRECISION"
      [] type = "float32" -> "REAL"
      [] type = "bool" -> "BOOLEAN"
      [] type = "timestamp[us, tz=UTC]" -> "TIMESTAMPTZ"
      [] type = "timestamp[us]" -> "TIMESTAMP"
      [] type = "list<string>" -> "TEXT[]"
      [] OTHER -> "unsupported"

\* The same mapping with JsonType taken as a string.
ClaimedTypeWithJson(type, name) ==
    ClaimedType(IF type = "JsonType" THEN "string" ELSE type, name)

\* The result follows a mapping: one (name, type) per field in the order of
\* the schema when every field is supported; otherwise an error that names
\* the first unsupported field and its type, and no list.
FollowsMapping(schema, result, Mapping(_, _)) ==
    LET unsupported ==
            {i \in 1..Len(schema) : Mapping(schema[i].type, schema[i].name) = "unsupported"}
    IN  IF unsupported = {}
        THEN /\ result.raised = <<>>
             /\ result.returned =
                    [i \in 1..Len(schema) |->
                        <<schema[i].name, Mapping(schema[i].type, schema[i].name)>>]
        ELSE /\ \E i \in unsupported :
                    /\ \A j \in unsupported : i <= j
                    /\ result.raised = <<"TypeError", schema[i].name, schema[i].type>>
             /\ result.returned = <<>>

\* C24 (as stated): the function follows the mapping of the claim, in which
\* a field of any type the mapping does not name makes it raise.
C24_MapsFieldsAsClaimed ==
    (pc = "schema_done") => FollowsMapping(record_schema, pg_schema, ClaimedType)

\* C24 (amended): the function follows the mapping of the claim with a
\* JsonType field handled as a string field is: JSONB if its name is a known
\* JSON column, TEXT otherwise.
C24_MapsFieldsWithJsonType ==
    (pc = "schema_done") => FollowsMapping(record_schema, pg_schema, ClaimedTypeWithJson)

\* The function returned the fields of a schema of two fields, one of them
\* a JsonType field that is a known JSON column.
C24_Witness ==
    /\ pc = "schema_done"
    /\ Len(record_schema) = 2
    /\ \E i \in 1..2 : record_schema[i] = [name |-> "properties", type |-> "JsonType"]
    /\ pg_schema.raised = <<>>
    /\ Len(pg_schema.returned) = 2

----------------------------------------------------------------------------
\* The record-batch queue between the producer and the consumer (SpecQueue).
\* Line 619 builds the queue with its byte ceiling, lines 620-635 start the
\* producer on it and lines 749-752 hand both to run_consumer.  The classes
\* themselves are described in section 4.5 of the specification: a FIFO
\* bounded by the cumulative bytes of its batches, a Put that blocks when
\* the next batch would exceed the ceiling, a Get that blocks while the
\* queue is empty and the producer is not done, and "queue empty and
\* producer done" as the end of the stream.

MaxBatches == 3
MaxBatchBytes == 4

\* Line 619: max_size_bytes, the ceiling the queue is built with.
max_size_bytes == 3

\* The sizes of the record batches one producer has to put, in order.
BatchRuns == UNION {[1..n -> 1..MaxBatchBytes] : n \in 0..MaxBatches}

RECURSIVE qsize(_)
\* The cumulative bytes of the batches in a queue.
qsize(q) == IF q = <<>> THEN 0 ELSE Head(q).nbytes + qsize(Tail(q))

\* A Put that only waits while the queue is at or over its ceiling.
can_put_when_not_full(q, record_batch) == qsize(q) < max_size_bytes

\* Put goes ahead when adding the batch does not exceed the ceiling.
can_put(q, record_batch) == qsize(q) + record_batch.nbytes <= max_size_bytes

\* An end of the stream that does not look at the producer.
producer_done_unchecked == TRUE

\* The producer task is done, with or without an error.
producer_done == pc \in {"producer_done", "producer_failed"}

InitQueue ==
    /\ model = "none"
    /\ source = [r \in Ranges |-> SourceRow(model, "user-a", r)]
    /\ finalExists = FALSE
    /\ finalUnique = <<>>
    /\ final = EmptyBag
    /\ final0 = EmptyBag
    /\ stageExists = FALSE
    /\ stage = EmptyBag
    /\ attempt = 1
    /\ pc = "producing"
    /\ cpc = "consuming"
    /\ error = "none"
    /\ details = NoDetails
    /\ heartbeat = NoDetails
    /\ todo = <<>>
    /\ buffer = <<>>
    /\ stageEntered = FALSE
    /\ mergeCalls = 0
    /\ dropCalls = {}
    /\ dropFailed = {}
    /\ copied = {}
    /\ merged = {}
    /\ flushStart = NoDetails
    /\ maxMerged = [id \in Ids |-> 0]
    /\ finalBefore = EmptyBag
    /\ NoClient
    /\ NoNames
    /\ NoJson
    /\ NoFields
    /\ NoWorker
    /\ NoBackfill
    /\ NoTwoRuns
    /\ NoConvert
    /\ NoWorkflow
    /\ queue = <<>>
    /\ \E sizes \in BatchRuns :
            batches = [i \in DOMAIN sizes |-> [number |-> i, nbytes |-> sizes[i]]]
    /\ put = <<>>
    /\ taken = <<>>

queueFrame ==
    UNCHANGED <<model, source, final0, finalExists, finalUnique, final, stageExists,
                stage, attempt, error, details, heartbeat, todo, buffer,
                stageEntered, mergeCalls, dropCalls, dropFailed, copied, merged,
                flushStart, maxMerged, finalBefore, clientVars, nameVars, jsonVars,
                fieldVars, workflowVars, convertVars, twoRunsVars, backfillVars,
                workerVars>>

\* The producer puts its next batch; it waits while the batch does not fit.
Put ==
    /\ pc = "producing"
    /\ batches # <<>>
    /\ can_put(queue, Head(batches))
    /\ queue' = Append(queue, Head(batches))
    /\ put' = Append(put, Head(batches))
    /\ batches' = Tail(batches)
    /\ UNCHANGED <<pc, cpc, taken>>
    /\ queueFrame

\* The producer has put its last batch and its task completes.
ProducerDone ==
    /\ pc = "producing"
    /\ batches = <<>>
    /\ pc' = "producer_done"
    /\ UNCHANGED <<cpc, queueVars>>
    /\ queueFrame

\* The producer's query fails and its task completes with the error.
ProducerFail ==
    /\ pc = "producing"
    /\ pc' = "producer_failed"
    /\ UNCHANGED <<cpc, queueVars>>
    /\ queueFrame

\* The consumer gets the oldest batch; it waits while the queue is empty.
Get ==
    /\ cpc = "consuming"
    /\ queue # <<>>
    /\ taken' = Append(taken, Head(queue))
    /\ queue' = Tail(queue)
    /\ UNCHANGED <<pc, cpc, batches, put>>
    /\ queueFrame

\* The consumer meets the end of the stream: queue empty and producer done.
ConsumerEnd ==
    /\ cpc = "consuming"
    /\ queue = <<>>
    /\ producer_done
    /\ cpc' = "ended"
    /\ UNCHANGED <<pc, queueVars>>
    /\ queueFrame

NextQueue ==
    \/ Put
    \/ ProducerDone
    \/ ProducerFail
    \/ Get
    \/ ConsumerEnd

\* Both tasks run on one event loop: a task whose wait is over is resumed.
\* Nothing obliges the producer's query to fail.
FairQueue ==
    /\ WF_vars(Put)
    /\ WF_vars(ProducerDone)
    /\ WF_vars(Get)
    /\ WF_vars(ConsumerEnd)

SpecQueue == InitQueue /\ [][NextQueue]_vars /\ FairQueue

----------------------------------------------------------------------------
\* The error of an attempt whose consumer failed (Spec).

\* The consumer of a merge-model attempt has failed and the activity is on
\* its way out: from the finally block to the end of the connect scope.
LeavingAfterConsumerError ==
    /\ requires_merge(model)
    /\ cpc = "failed"
    /\ pc \in {"finally", "merging", "exit_stage", "exit_final", "close"}

\* C38 (as stated): once run_consumer has raised in a merge-model attempt,
\* no later step replaces the error: the activity fails with the consumer's
\* error, also when the merge or the staging drop fails.
C38_ConsumerErrorNeverReplaced ==
    [][LeavingAfterConsumerError => error' = error]_vars

\* C38 (amended): the error is replaced only by a merge that raises or by a
\* staging drop that fails, and then by the error of that statement: a
\* merge that cannot commit leaves its own error or a database error, a
\* failed drop a database error; every other step keeps the error.
C38_OnlyFailedMergeOrDropReplacesError ==
    [][LeavingAfterConsumerError =>
        /\ (pc = "merging" /\ pc' # "merging"
                /\ MergeError(finalUnique, stage, merge_key(model)) # "none") =>
                error' \in DbErrors \cup {MergeError(finalUnique, stage, merge_key(model))}
        /\ (pc = "exit_stage" /\ dropFailed' # dropFailed) => error' \in DbErrors
        /\ (error' # error) =>
                \/ pc = "merging" /\ final' = final
                \/ pc = "exit_stage" /\ dropFailed' # dropFailed]_vars

\* A merge-model attempt whose consumer was cancelled has failed with the
\* MissingPrimaryKeyError of the merge in the finally block.
C38_Witness ==
    /\ requires_merge(model)
    /\ cpc = "failed"
    /\ pc = "raised"
    /\ error = "MissingPrimaryKeyError"

----------------------------------------------------------------------------
\* remove_invalid_json applied to its own result (SpecJson).

\* C36: remove_invalid_json is idempotent: applied to what it returned, it
\* returns the same bytes.
C36_RemoveInvalidJsonIdempotent ==
    (pc = "json_done") => remove_invalid_json(sanitized) = sanitized

----------------------------------------------------------------------------
\* Two merge-model runs of the activity on one destination table, run
\* concurrently (SpecTwoRuns).  Each run computes its staging identifier
\* (lines 694-702), enters the managed staging table (lines 728-735), has its
\* consumer copy into it (lines 737-763), merges from it in the finally
\* block (lines 764-773) and drops it on leaving the scope (lines 311-315).
\* All statements go to one database: a table is known by its name only.

InitTwoRuns ==
    /\ model = "none"
    /\ source = [r \in Ranges |-> SourceRow(model, "user-a", r)]
    /\ finalExists = FALSE
    /\ finalUnique = <<>>
    /\ final = EmptyBag
    /\ final0 = EmptyBag
    /\ stageExists = FALSE
    /\ stage = EmptyBag
    /\ attempt = 1
    /\ cpc = "idle"
    /\ error = "none"
    /\ details = NoDetails
    /\ heartbeat = NoDetails
    /\ todo = <<>>
    /\ buffer = <<>>
    /\ stageEntered = FALSE
    /\ mergeCalls = 0
    /\ dropCalls = {}
    /\ dropFailed = {}
    /\ copied = {}
    /\ merged = {}
    /\ flushStart = NoDetails
    /\ maxMerged = [id \in Ids |-> 0]
    /\ finalBefore = EmptyBag
    /\ NoClient
    /\ NoNames
    /\ NoJson
    /\ NoFields
    /\ NoWorker
    /\ NoBackfill
    /\ NoQueue
    /\ NoWorkflow
    /\ NoConvert
    /\ pc = "two_runs"
    /\ \E name \in TableNames, ends \in [{1, 2} -> WindowEnds], ids \in [{1, 2} -> TeamIds] :
            /\ ends[1] # ends[2] \/ ids[1] # ids[2]
            /\ runs = [r \in {1, 2} |->
                        [table_name |-> name, data_interval_end |-> ends[r],
                         team_id |-> ids[r], stagle_table_name |-> <<>>,
                         pc |-> "name_inputs", error |-> "none", merged |-> {}]]
    /\ stage_tables = <<>>

twoRunsFrame ==
    UNCHANGED <<model, source, final0, finalExists, finalUnique, final, stageExists,
                stage, attempt, pc, cpc, error, details, heartbeat, todo, buffer,
                stageEntered, mergeCalls, dropCalls, dropFailed, copied, merged,
                flushStart, maxMerged, finalBefore, clientVars, nameVars, jsonVars,
                fieldVars, queueVars, workflowVars, convertVars, backfillVars,
                workerVars>>

\* The tables without one of them.
WithoutTable(tables, name) == [n \in DOMAIN tables \ {name} |-> tables[n]]

\* Lines 694-702 in run r.
RunComputeStageName(r) ==
    /\ runs[r].pc = "name_inputs"
    /\ runs' = [runs EXCEPT
                  ![r].stagle_table_name =
                      StageTableName(runs[r].table_name, runs[r].data_interval_end,
                                     runs[r].team_id, TRUE),
                  ![r].pc = "name_done"]
    /\ UNCHANGED stage_tables
    /\ twoRunsFrame

\* Lines 728-735 and 308-309 in run r: CREATE TABLE IF NOT EXISTS.
RunEnterStageTable(r) ==
    /\ runs[r].pc = "name_done"
    /\ LET name == runs[r].stagle_table_name
       IN  stage_tables' =
                IF name \in DOMAIN stage_tables THEN stage_tables
                ELSE [n \in DOMAIN stage_tables \cup {name} |->
                        IF n = name THEN {} ELSE stage_tables[n]]
    /\ runs' = [runs EXCEPT ![r].pc = "run_consumer"]
    /\ twoRunsFrame

\* Lines 748-763 in run r: the consumer copies the rows of the run into the
\* table of its staging identifier; the COPY fails when there is none.
RunCopy(r) ==
    /\ runs[r].pc = "run_consumer"
    /\ LET name == runs[r].stagle_table_name
       IN  IF name \in DOMAIN stage_tables
           THEN /\ stage_tables' = [stage_tables EXCEPT ![name] = @ \cup {r}]
                /\ runs' = [runs EXCEPT ![r].pc = "finally"]
           ELSE /\ runs' = [runs EXCEPT ![r].pc = "finally",
                                         ![r].error = "UndefinedTable"]
                /\ UNCHANGED stage_tables
    /\ twoRunsFrame

\* Lines 764-773 in run r: the merge reads every row of the table of its
\* staging identifier; it fails when there is none.
RunMerge(r) ==
    /\ runs[r].pc = "finally"
    /\ LET name == runs[r].stagle_table_name
       IN  IF name \in DOMAIN stage_tables
           THEN runs' = [runs EXCEPT ![r].pc = "exit_stage",
                                     ![r].merged = stage_tables[name]]
           ELSE runs' = [runs EXCEPT ![r].pc = "exit_stage",
                                     ![r].error = "UndefinedTable"]
    /\ UNCHANGED stage_tables
    /\ twoRunsFrame

\* Lines 311-315 in run r: DROP TABLE IF EXISTS.
RunExitStageTable(r) ==
    /\ runs[r].pc = "exit_stage"
    /\ stage_tables' = WithoutTable(stage_tables, runs[r].stagle_table_name)
    /\ runs' = [runs EXCEPT ![r].pc = "ended"]
    /\ twoRunsFrame

NextTwoRuns ==
    \E r \in {1, 2} :
        \/ RunComputeStageName(r)
        \/ RunEnterStageTable(r)
        \/ RunCopy(r)
        \/ RunMerge(r)
        \/ RunExitStageTable(r)

SpecTwoRuns == InitTwoRuns /\ [][NextTwoRuns]_vars

----------------------------------------------------------------------------
\* Properties of two concurrent runs (SpecTwoRuns).

\* The two runs keep apart: their staging identifiers differ once computed,
\* a staging table holds the rows of one run only, and a run that has merged
\* has merged its own rows and met no error.
RunsKeepApart ==
    /\ (runs[1].pc # "name_inputs" /\ runs[2].pc # "name_inputs") =>
            runs[1].stagle_table_name # runs[2].stagle_table_name
    /\ \A r \in {1, 2} :
            /\ runs[r].error = "none"
            /\ runs[r].pc \in {"exit_stage", "ended"} => runs[r].merged = {r}
            /\ runs[r].pc \in {"run_consumer", "finally", "exit_stage"} =>
                    /\ runs[r].stagle_table_name \in DOMAIN stage_tables
                    /\ stage_tables[runs[r].stagle_table_name] \subseteq {r}

----------------------------------------------------------------------------
\* backfill_secret_api_tokens_in_batches (SpecBackfill),
\* src/frontend/bin/backfill_secret_api_tokens.py.

MaxTeams == 3
MaxBatchSize == 2

\* A team row: its two secret tokens, None or a token.
TeamRows == [secret_api_token : {"None", "phs_token"},
             secret_api_token_backup : {"None", "phs_token"}]

\* Line 11: Q(secret_api_token=None) | Q(secret_api_token_backup=None).
token_unset(team) ==
    team.secret_api_token = "None" \/ team.secret_api_token_backup = "None"

\* Team.save, as the comment of line 21 describes it: the tokens that are
\* not set are generated.
Team_save(team) ==
    [secret_api_token |->
        IF team.secret_api_token = "None" THEN "phs_generated"
        ELSE team.secret_api_token,
     secret_api_token_backup |->
        IF team.secret_api_token_backup = "None" THEN "phs_generated_backup"
        ELSE team.secret_api_token_backup]

RECURSIVE order_by_pk_descending(_)
\* Variant of order_by_pk: the largest primary key first.
order_by_pk_descending(pks) ==
    IF pks = {} THEN <<>>
    ELSE LET last == CHOOSE pk \in pks : \A other \in pks : other <= pk
         IN  <<last>> \o order_by_pk_descending(pks \ {last})

RECURSIVE order_by_pk(_)
\* Lines 11-13: order_by("pk").
order_by_pk(pks) ==
    IF pks = {} THEN <<>>
    ELSE LET first == CHOOSE pk \in pks : \A other \in pks : pk <= other
         IN  <<first>> \o order_by_pk(pks \ {first})

\* The saves of the open transaction.
saves_in_transaction == SelectSeq(saves, LAMBDA s : s.transaction = transactions)

InitBackfill ==
    /\ model = "none"
    /\ source = [r \in Ranges |-> SourceRow(model, "user-a", r)]
    /\ finalExists = FALSE
    /\ finalUnique = <<>>
    /\ final = EmptyBag
    /\ final0 = EmptyBag
    /\ stageExists = FALSE
    /\ stage = EmptyBag
    /\ attempt = 1
    /\ cpc = "idle"
    /\ error = "none"
    /\ details = NoDetails
    /\ heartbeat = NoDetails
    /\ todo = <<>>
    /\ buffer = <<>>
    /\ stageEntered = FALSE
    /\ mergeCalls = 0
    /\ dropCalls = {}
    /\ dropFailed = {}
    /\ copied = {}
    /\ merged = {}
    /\ flushStart = NoDetails
    /\ maxMerged = [id \in Ids |-> 0]
    /\ finalBefore = EmptyBag
    /\ NoClient
    /\ NoNames
    /\ NoJson
    /\ NoFields
    /\ NoWorker
    /\ NoQueue
    /\ NoWorkflow
    /\ NoConvert
    /\ NoTwoRuns
    /\ pc = "select"
    /\ \E pks \in SUBSET (1..MaxTeams) : teams \in [pks -> TeamRows]
    /\ teams_at_start = teams
    /\ batch_size \in 1..MaxBatchSize
    /\ last_pk = 0
    /\ batch = <<>>
    /\ saves = <<>>
    /\ transactions = 0
    /\ savepoint = <<>>

backfillFrame ==
    UNCHANGED <<model, source, final0, finalExists, finalUnique, final, stageExists,
                stage, attempt, cpc, details, heartbeat, todo, buffer,
                stageEntered, mergeCalls, dropCalls, dropFailed, copied, merged,
                flushStart, maxMerged, finalBefore, clientVars, nameVars, jsonVars,
                fieldVars, queueVars, workflowVars, convertVars, twoRunsVars,
                workerVars>>

\* Lines 10-19: the next batch is read; the loop ends when it is empty,
\* otherwise a transaction begins.
SelectBatch ==
    /\ pc = "select"
    /\ LET found == {pk \in DOMAIN teams : token_unset(teams[pk]) /\ pk > last_pk}
           next_batch == Slice(order_by_pk(found), batch_size)
       IN  /\ batch' = next_batch
           /\ IF next_batch = <<>>
              THEN /\ pc' = "returned"
                   /\ UNCHANGED <<transactions, savepoint>>
              ELSE /\ pc' = "saving"
                   /\ transactions' = transactions + 1
                   /\ savepoint' = teams
    /\ UNCHANGED <<error, teams, teams_at_start, batch_size, last_pk, saves>>
    /\ backfillFrame

\* Lines 20-22: the next team of the batch is saved.
SaveTeam ==
    /\ pc = "saving"
    /\ Len(saves_in_transaction) < Len(batch)
    /\ LET pk == batch[Len(saves_in_transaction) + 1]
       IN  /\ teams' = [teams EXCEPT ![pk] = Team_save(@)]
           /\ saves' = Append(saves, [pk |-> pk, transaction |-> transactions])
    /\ UNCHANGED <<pc, error, teams_at_start, batch_size, last_pk, batch, transactions,
                   savepoint>>
    /\ backfillFrame

\* Lines 19-22: a save fails; transaction.atomic rolls the batch back and
\* the exception leaves the function.
SaveRaises ==
    /\ pc = "saving"
    /\ Len(saves_in_transaction) < Len(batch)
    /\ teams' = savepoint
    /\ error' = "DatabaseError"
    /\ pc' = "raised"
    /\ UNCHANGED <<teams_at_start, batch_size, last_pk, batch, saves, transactions,
                   savepoint>>
    /\ backfillFrame

\* Lines 19 and 24: every team of the batch is saved; the transaction
\* commits and last_pk becomes the primary key of the last team.
CommitBatch ==
    /\ pc = "saving"
    /\ Len(saves_in_transaction) = Len(batch)
    /\ last_pk' = batch[Len(batch)]
    /\ pc' = "select"
    /\ UNCHANGED <<error, teams, teams_at_start, batch_size, batch, saves, transactions,
                   savepoint>>
    /\ backfillFrame

NextBackfill ==
    \/ SelectBatch
    \/ SaveTeam
    \/ SaveRaises
    \/ CommitBatch

\* The function is one sequential loop: it goes on while it has a step.
SpecBackfill == InitBackfill /\ [][NextBackfill]_vars /\ WF_vars(NextBackfill)

----------------------------------------------------------------------------
\* Properties of the backfill (SpecBackfill).

\* The teams that had an unset token when the backfill was called.
UnsetAtStart == {pk \in DOMAIN teams_at_start : token_unset(teams_at_start[pk])}

\* What holds when the function has returned: the teams saved are those
\* that had an unset token at the start, each once and in ascending order
\* of primary key; every transaction holds at most batch_size saves; and no
\* team has an unset token.
BackfilledWhenReturned ==
    (pc = "returned") =>
        /\ {saves[i].pk : i \in DOMAIN saves} = UnsetAtStart
        /\ \A i, j \in DOMAIN saves :
                i < j => /\ saves[i].pk < saves[j].pk
                         /\ saves[i].transaction <= saves[j].transaction
        /\ \A t \in 1..transactions :
                Cardinality({i \in DOMAIN saves : saves[i].transaction = t}) \in 1..batch_size
        /\ \A pk \in DOMAIN teams : ~token_unset(teams[pk])

\* C39: the function ends for every set of teams and every batch_size of at
\* least one, and when it has returned it has saved every team that had an
\* unset token exactly once, in ascending order of primary key, in
\* transactions of at most batch_size teams, and no unset token is left.
C39_BackfillTerminatesAndSavesOnce ==
    /\ []BackfilledWhenReturned
    /\ <>(pc \in {"returned", "raised"})

\* The function has returned after saving three teams in two transactions
\* of a batch size of two.
C39_Witness ==
    /\ pc = "returned"
    /\ batch_size = 2
    /\ Len(saves) = 3
    /\ transactions = 2

----------------------------------------------------------------------------
\* Command.handle of start_temporal_worker (SpecWorker),
\* src/posthog/management/commands/start_temporal_worker.py, lines 179-230.
\* The event loop runs its callbacks in the order they were scheduled, and
\* only inside runner.run; a signal schedules the handler that
\* add_signal_handler registered (lines 217-225).  Worker.run returns once
\* the shutdown is complete; Worker.shutdown requests the shutdown and
\* returns when it is complete; is_shutdown is true once it is complete.

MaxSignals == 3

Signals == {"SIGTERM", "SIGINT"}

Callback(kind, sig, task) == [kind |-> kind, sig |-> sig, task |-> task]

\* A handler that does not look at the worker.
never_shut_down == FALSE

\* Line 187: worker.is_shutdown.
is_shutdown == worker = "shut_down"

\* The loop is running: inside runner.run (lines 227, 230) or inside the
\* close of the runner at the end of the with block (line 195).
LoopRunning == pc \in {"worker_run", "wait_shutdown_task", "closing"}

InitWorker ==
    /\ model = "none"
    /\ source = [r \in Ranges |-> SourceRow(model, "user-a", r)]
    /\ finalExists = FALSE
    /\ finalUnique = <<>>
    /\ final = EmptyBag
    /\ final0 = EmptyBag
    /\ stageExists = FALSE
    /\ stage = EmptyBag
    /\ attempt = 1
    /\ cpc = "idle"
    /\ error = "none"
    /\ details = NoDetails
    /\ heartbeat = NoDetails
    /\ todo = <<>>
    /\ buffer = <<>>
    /\ stageEntered = FALSE
    /\ mergeCalls = 0
    /\ dropCalls = {}
    /\ dropFailed = {}
    /\ copied = {}
    /\ merged = {}
    /\ flushStart = NoDetails
    /\ maxMerged = [id \in Ids |-> 0]
    /\ finalBefore = EmptyBag
    /\ NoClient
    /\ NoNames
    /\ NoJson
    /\ NoFields
    /\ NoQueue
    /\ NoWorkflow
    /\ NoConvert
    /\ NoTwoRuns
    /\ NoBackfill
    /\ pc = "worker_run"
    /\ worker = "running"
    /\ ready = <<>>
    /\ tasks = <<>>
    /\ shutdown_task = 0
    /\ signals = 0
    /\ main = "awaits_shutdown"

workerFrame ==
    UNCHANGED <<model, source, final0, finalExists, finalUnique, final, stageExists,
                stage, attempt, cpc, details, heartbeat, todo, buffer,
                stageEntered, mergeCalls, dropCalls, dropFailed, copied, merged,
                flushStart, maxMerged, finalBefore, clientVars, nameVars, jsonVars,
                fieldVars, queueVars, workflowVars, convertVars, twoRunsVars, backfillVars>>

\* The process receives SIGTERM or SIGINT: the loop schedules the handler.
Signal ==
    /\ pc \in {"worker_run", "check_shutdown_task", "wait_shutdown_task", "closing"}
    /\ signals < MaxSignals
    /\ signals' = signals + 1
    /\ \E sig \in Signals : ready' = Append(ready, Callback("signal", sig, 0))
    /\ UNCHANGED <<pc, error, worker, tasks, shutdown_task, main>>
    /\ workerFrame

\* Lines 181-193: shutdown_worker_on_signal, run by the loop.
shutdown_worker_on_signal ==
    /\ LoopRunning
    /\ ready # <<>>
    /\ Head(ready).kind = "signal"
    /\ IF is_shutdown
       THEN /\ ready' = Tail(ready)
            /\ UNCHANGED <<tasks, shutdown_task>>
       ELSE /\ tasks' = Append(tasks, "scheduled")
            /\ shutdown_task' = Len(tasks) + 1
            /\ ready' = Append(Tail(ready), Callback("task", "none", Len(tasks) + 1))
    /\ UNCHANGED <<pc, error, worker, signals, main>>
    /\ workerFrame

\* Line 192: the loop runs a shutdown task.  worker.shutdown() requests the
\* shutdown, which wakes worker.run(), and waits until the shutdown is
\* complete; a task that waited is done when it is woken.
RunShutdownTask ==
    /\ LoopRunning
    /\ ready # <<>>
    /\ Head(ready).kind = "task"
    /\ LET i == Head(ready).task
           woken == IF worker = "running" /\ main = "awaits_shutdown"
                    THEN <<Callback("main", "none", 0)>> ELSE <<>>
           finished == IF worker = "shut_down" /\ main = "awaits_task" /\ i = shutdown_task
                       THEN <<Callback("main", "none", 0)>> ELSE <<>>
       IN  /\ tasks[i] \in {"scheduled", "waiting"}
           /\ tasks' = [tasks EXCEPT ![i] = IF worker = "shut_down" THEN "done"
                                              ELSE "waiting"]
           /\ worker' = IF worker = "running" THEN "shutting_down" ELSE worker
           /\ ready' = Tail(ready) \o woken \o finished
    /\ UNCHANGED <<pc, error, shutdown_task, signals, main>>
    /\ workerFrame

\* Line 227: worker.run() is woken by the request and starts the graceful
\* shutdown, in which it waits for the running activities.
WorkerStartsShutdown ==
    /\ pc = "worker_run"
    /\ ready # <<>>
    /\ Head(ready).kind = "main"
    /\ main = "awaits_shutdown"
    /\ main' = "draining"
    /\ ready' = Tail(ready)
    /\ UNCHANGED <<pc, error, worker, tasks, shutdown_task, signals>>
    /\ workerFrame

\* The running activities have ended: worker.run() is woken again.
DrainEnds ==
    /\ pc = "worker_run"
    /\ main = "draining"
    /\ main' = "drained"
    /\ ready' = Append(ready, Callback("main", "none", 0))
    /\ UNCHANGED <<pc, error, worker, tasks, shutdown_task, signals>>
    /\ workerFrame

\* The tasks that wait for the end of the shutdown, in the order they began
\* to wait, as callbacks.
RECURSIVE WakeWaiting(_, _)
WakeWaiting(ts, i) ==
    IF i > Len(ts) THEN <<>>
    ELSE (IF ts[i] = "waiting" THEN <<Callback("task", "none", i)>> ELSE <<>>)
            \o WakeWaiting(ts, i + 1)

\* Line 227: worker.run() completes the shutdown, which wakes the tasks that
\* wait for it, and returns; the loop then stops.
WorkerCompletesShutdown ==
    /\ pc = "worker_run"
    /\ ready # <<>>
    /\ Head(ready).kind = "main"
    /\ main = "drained"
    /\ worker' = "shut_down"
    /\ main' = "done"
    /\ ready' = Tail(ready) \o WakeWaiting(tasks, 1) \o <<Callback("stop", "none", 0)>>
    /\ UNCHANGED <<pc, error, tasks, shutdown_task, signals>>
    /\ workerFrame

\* Lines 227 and 230: the coroutine of runner.run is done and the loop
\* stops; runner.run returns.
RunnerRunReturns ==
    /\ pc \in {"worker_run", "wait_shutdown_task"}
    /\ ready # <<>>
    /\ Head(ready).kind = "stop"
    /\ ready' = Tail(ready)
    /\ pc' = IF pc = "worker_run" THEN "check_shutdown_task" ELSE "closing"
    /\ main' = "none"
    /\ UNCHANGED <<error, worker, tasks, shutdown_task, signals>>
    /\ workerFrame

\* Lines 229-230: when shutdown_task is set, the runner runs
\* asyncio.wait([shutdown_task]).
CheckShutdownTask ==
    /\ pc = "check_shutdown_task"
    /\ IF shutdown_task # 0
       THEN /\ pc' = "wait_shutdown_task"
            /\ main' = "wait_begins"
            /\ ready' = Append(ready, Callback("main", "none", 0))
       ELSE /\ pc' = "closing"
            /\ UNCHANGED <<main, ready>>
    /\ UNCHANGED <<error, worker, tasks, shutdown_task, signals>>
    /\ workerFrame

\* Line 230: asyncio.wait returns when the task is done, at once when it
\* already is.
WaitShutdownTask ==
    /\ pc = "wait_shutdown_task"
    /\ ready # <<>>
    /\ Head(ready).kind = "main"
    /\ IF tasks[shutdown_task] = "done"
       THEN /\ main' = "done"
            /\ ready' = Append(Tail(ready), Callback("stop", "none", 0))
       ELSE /\ main' = "awaits_task"
            /\ ready' = Tail(ready)
    /\ UNCHANGED <<pc, error, worker, tasks, shutdown_task, signals>>
    /\ workerFrame

\* Line 195: the with block ends.  The runner cancels the tasks that are
\* not done, runs the loop until they are, and closes it; handle returns.
CloseRunner ==
    /\ pc = "closing"
    /\ ready = <<>>
    /\ tasks' = [i \in DOMAIN tasks |-> IF tasks[i] = "done" THEN "done" ELSE "cancelled"]
    /\ pc' = "handle_returned"
    /\ UNCHANGED <<error, worker, ready, shutdown_task, signals, main>>
    /\ workerFrame

NextWorker ==
    \/ Signal
    \/ shutdown_worker_on_signal
    \/ RunShutdownTask
    \/ WorkerStartsShutdown
    \/ DrainEnds
    \/ WorkerCompletesShutdown
    \/ RunnerRunReturns
    \/ CheckShutdownTask
    \/ WaitShutdownTask
    \/ CloseRunner

SpecWorker == InitWorker /\ [][NextWorker]_vars

----------------------------------------------------------------------------
\* Properties of the command (SpecWorker).

\* C40: a signal handled once the worker is shut down creates no shutdown
\* task, and when handle returns every shutdown task the handler created is
\* done: none is left waiting or was cancelled by the close of the runner.
C40_NoLateShutdownAndTasksDone ==
    [][/\ (worker = "shut_down") =>
            (Len(tasks') = Len(tasks) /\ shutdown_task' = shutdown_task)
       /\ (pc' = "handle_returned") => \A i \in DOMAIN tasks' : tasks'[i] = "done"]_vars

\* handle has returned after three signals: two were handled before the
\* shutdown was complete and created a task each, the third came later.
C40_Witness ==
    /\ pc = "handle_returned"
    /\ signals = 3
    /\ Len(tasks) = 2
    /\ shutdown_task = 2

----------------------------------------------------------------------------
\* Properties of the record-batch queue (SpecQueue).

\* C31: after any sequence of Put and Get the cumulative bytes of the
\* batches in the queue do not exceed the configured ceiling.
C31_QueueBytesWithinCeiling == qsize(queue) <= max_size_bytes

\* The producer waits on Put with a batch that does not fit next to the
\* batches in the queue, after at least one Put and one Get.
C31_Witness ==
    /\ pc = "producing"
    /\ batches # <<>>
    /\ queue # <<>>
    /\ taken # <<>>
    /\ ~can_put(queue, Head(batches))
    /\ Head(batches).nbytes <= max_size_bytes

\* Every batch of the run fits under the ceiling on its own.
EveryBatchFits == \A i \in DOMAIN batches : batches[i].nbytes <= max_size_bytes

\* The batches got and the batches in the queue are, in order, the batches
\* put; and the consumer has ended only with the queue empty and the
\* producer done.
FifoUntilEndOfStream ==
    /\ taken \o queue = put
    /\ (cpc = "ended") => (queue = <<>> /\ pc # "producing")

----------------------------------------------------------------------------
\* PostgresBatchExportWorkflow.run (SpecWorkflow), lines 794-891.

RunIds == {"run-1", "run-2"}

\* Line 819: what start_batch_export_run is not retried on.  Its policy has
\* maximum_attempts=0: any other error is retried without limit.
start_non_retryable_error_types == {"NotNullViolation", "IntegrityError"}

\* The error types insert_into_postgres_activity can end with: those of the
\* PostgreSQL client and of psycopg, and "none" when it returns.
ActivityOutcomes ==
    {"none", "OperationalError", "InvalidSchemaName", "InsufficientPrivilege",
     "NotNullViolation", "UniqueViolation", "UndefinedColumn",
     "StringDataRightTruncation", "DiskFull", "PostgreSQLConnectionError",
     "MissingPrimaryKeyError", "FeatureNotSupported", "CheckViolation",
     "ForeignKeyViolation", "UntranslatableCharacter", "QueryCanceled",
     "CardinalityViolation", "TypeError"}

InitWorkflow ==
    /\ model = "none"
    /\ source = [r \in Ranges |-> SourceRow(model, "user-a", r)]
    /\ finalExists = FALSE
    /\ finalUnique = <<>>
    /\ final = EmptyBag
    /\ final0 = EmptyBag
    /\ stageExists = FALSE
    /\ stage = EmptyBag
    /\ attempt = 1
    /\ pc = "workflow_start"
    /\ cpc = "idle"
    /\ error = "none"
    /\ details = NoDetails
    /\ heartbeat = NoDetails
    /\ todo = <<>>
    /\ buffer = <<>>
    /\ stageEntered = FALSE
    /\ mergeCalls = 0
    /\ dropCalls = {}
    /\ dropFailed = {}
    /\ copied = {}
    /\ merged = {}
    /\ flushStart = NoDetails
    /\ maxMerged = [id \in Ids |-> 0]
    /\ finalBefore = EmptyBag
    /\ NoClient
    /\ NoJson
    /\ NoFields
    /\ NoWorker
    /\ NoBackfill
    /\ NoTwoRuns
    /\ NoConvert
    /\ NoQueue
    /\ table_name = <<>>
    /\ data_interval_end = <<>>
    /\ team_id \in TeamIds
    /\ stagle_table_name = <<>>
    /\ run_id = "none"
    /\ insert_inputs = <<>>

workflowFrame ==
    UNCHANGED <<model, source, final0, finalExists, finalUnique, final, stageExists,
                stage, cpc, details, heartbeat, todo, buffer,
                stageEntered, mergeCalls, dropCalls, dropFailed, copied, merged,
                flushStart, maxMerged, finalBefore, clientVars, nameVars, jsonVars,
                fieldVars, queueVars, convertVars, twoRunsVars, backfillVars,
                workerVars>>

\* Lines 812-822: start_batch_export_run returns the id of the run.
StartBatchExportRun ==
    /\ pc = "workflow_start"
    /\ run_id' \in RunIds
    /\ pc' = "run_started"
    /\ UNCHANGED <<attempt, error, insert_inputs>>
    /\ workflowFrame

\* Lines 812-822: start_batch_export_run fails with an error of its
\* non-retryable list; the await raises and run ends there.
StartBatchExportRunFails ==
    /\ pc = "workflow_start"
    /\ error' \in start_non_retryable_error_types
    /\ pc' = "workflow_failed"
    /\ UNCHANGED <<attempt, run_id, insert_inputs>>
    /\ workflowFrame

\* Lines 831-891: the inputs of the activity are built with run_id and the
\* activity is executed; it returns or raises.
ExecuteInsert ==
    /\ pc = "run_started"
    /\ insert_inputs' = [team_id |-> team_id, run_id |-> run_id]
    /\ error' \in ActivityOutcomes
    /\ pc' = "insert_ended"
    /\ UNCHANGED <<attempt, run_id>>
    /\ workflowFrame

\* The retry policy executes the activity again, with the same inputs, when
\* the error type is not one of non_retryable_error_types.
RetryInsert ==
    /\ pc = "insert_ended"
    /\ error # "none"
    /\ error \notin NonRetryable
    /\ attempt < MaxAttempts
    /\ attempt' = attempt + 1
    /\ error' \in ActivityOutcomes
    /\ UNCHANGED <<pc, run_id, insert_inputs>>
    /\ workflowFrame

\* The failure of the activity is not retried (any more): the await of lines
\* 851-891 raises and the workflow fails.
FailWorkflow ==
    /\ pc = "insert_ended"
    /\ error # "none"
    /\ error \in NonRetryable \/ attempt >= MaxAttempts
    /\ pc' = "workflow_failed"
    /\ UNCHANGED <<attempt, error, run_id, insert_inputs>>
    /\ workflowFrame

\* The activity returned and run returns.
CompleteWorkflow ==
    /\ pc = "insert_ended"
    /\ error = "none"
    /\ pc' = "workflow_completed"
    /\ UNCHANGED <<attempt, error, run_id, insert_inputs>>
    /\ workflowFrame

NextWorkflow ==
    \/ StartBatchExportRun
    \/ StartBatchExportRunFails
    \/ ExecuteInsert
    \/ RetryInsert
    \/ FailWorkflow
    \/ CompleteWorkflow

SpecWorkflow == InitWorkflow /\ [][NextWorkflow]_vars

----------------------------------------------------------------------------
\* Properties of the workflow (SpecWorkflow).

\* The kinds of failure the error table marks non-retryable, by the name of
\* their error type.
ErrorTableNonRetryable ==
    {"PostgreSQLConnectionError", "OperationalError", "InvalidSchemaName",
     "InsufficientPrivilege", "UndefinedColumn", "NotNullViolation", "UniqueViolation",
     "CheckViolation", "ForeignKeyViolation", "StringDataRightTruncation", "DiskFull",
     "FeatureNotSupported", "UntranslatableCharacter", "MissingPrimaryKeyError"}

\* C33: the activity is executed only after start_batch_export_run gave a
\* run id, and with that run id; and after the activity failed with an
\* error the error table marks non-retryable, the only step is the failure
\* of the workflow, with no further execution of the activity.
C33_RunIdFirstAndNoRetryOfListedErrors ==
    [][/\ (insert_inputs' # insert_inputs) =>
            /\ run_id \in RunIds
            /\ insert_inputs'.run_id = run_id
       /\ (pc = "insert_ended" /\ error \in ErrorTableNonRetryable) =>
            /\ pc' = "workflow_failed"
            /\ attempt' = attempt
            /\ error' = error]_vars

\* The workflow failed on the first MissingPrimaryKeyError of the activity,
\* which ran with the run id of start_batch_export_run.
C33_Witness ==
    /\ pc = "workflow_failed"
    /\ error = "MissingPrimaryKeyError"
    /\ attempt = 1
    /\ run_id \in RunIds
    /\ insert_inputs.run_id = run_id

----------------------------------------------------------------------------
\* convert_legacy_metric (SpecConvert),
\* src/ee/clickhouse/views/convert_legacy_metric.py.  A dict is a function
\* from its keys; a list is a sequence.

\* The keys a series item can have next to "event".
ItemKeys == {"name", "math", "math_property_type"}

ItemValue(key) ==
    CASE key = "event" -> "$pageview"
      [] key = "name" -> "Pageview"
      [] key = "math" -> "sum"
      [] key = "math_property_type" -> "numerical_event_properties"

\* Series items: a dict with "event" and any of the other keys.
Items == {[key \in {"event"} \cup keys |-> ItemValue(key)] : keys \in SUBSET ItemKeys}

\* Series: none, one item, or an item followed by a named one.
SeriesLists ==
    {<<>>} \cup {<<item>> : item \in Items}
           \cup {<<item, [event |-> "$pageview", name |-> "Pageview"]>> : item \in Items}

\* The name of a legacy metric: no key, None, empty or a text.
MetricNames == {"no key", "None", "", "Signups"}

\* A dict d with the key "name" set when the legacy metric has the key.
WithName(d, name) ==
    IF name = "no key" THEN d
    ELSE [key \in DOMAIN d \cup {"name"} |-> IF key = "name" THEN name ELSE d[key]]

LegacyMetrics ==
    {WithName([kind |-> "ExperimentFunnelsQuery", funnels_query |-> [series |-> series]],
              name) : series \in SeriesLists, name \in MetricNames}
    \cup
    {WithName([kind |-> "ExperimentTrendsQuery", count_query |-> [series |-> series]],
              name) : series \in SeriesLists, name \in MetricNames}
    \cup
    {[kind |-> "ExperimentMetric", metric_type |-> "mean", name |-> "Signups"]}

\* The lists the function is called with: up to two legacy metrics.
MetricLists ==
    {<<>>} \cup {<<m>> : m \in LegacyMetrics}
           \cup {<<m, n>> : m \in LegacyMetrics, n \in LegacyMetrics}

\* dict.get(key): None when the key is missing.
get(d, key) == IF key \in DOMAIN d THEN d[key] ELSE "None"

\* The truth value of a name: None and the empty string are false.
truthy(value) == value \notin {"None", ""}

\* Lines 19-22: the copy of a step, key by key, that skips "name".
step_copy(step) == [key \in {k \in DOMAIN step : k # "name"} |-> step[key]]

\* del d[key].
del(d, key) == [k \in DOMAIN d \ {key} |-> d[k]]

\* Lines 35-40: source once math_property_type, and name when there is no
\* math, are deleted from it.
source_after_deletes(item) ==
    LET without_type == IF "math_property_type" \in DOMAIN item
                        THEN del(item, "math_property_type") ELSE item
    IN  IF "math" \notin DOMAIN without_type /\ "name" \in DOMAIN without_type
        THEN del(without_type, "name") ELSE without_type

\* Line 32 without .copy(): source is the series item itself.
source_is_the_item == FALSE

\* Line 32: .copy() makes source a dict of its own, so that the deletes of
\* lines 36 and 40 do not reach the series item of the caller.
source_is_copy == TRUE

\* Lines 26-27 and 44-45: the name is set when the legacy metric has one.
with_metric_name(new_metric, legacy_metric) ==
    IF truthy(get(legacy_metric, "name"))
    THEN WithName(new_metric, get(legacy_metric, "name"))
    ELSE new_metric

InitConvert ==
    /\ model = "none"
    /\ source = [r \in Ranges |-> SourceRow(model, "user-a", r)]
    /\ finalExists = FALSE
    /\ finalUnique = <<>>
    /\ final = EmptyBag
    /\ final0 = EmptyBag
    /\ stageExists = FALSE
    /\ stage = EmptyBag
    /\ attempt = 1
    /\ cpc = "idle"
    /\ error = "none"
    /\ details = NoDetails
    /\ heartbeat = NoDetails
    /\ todo = <<>>
    /\ buffer = <<>>
    /\ stageEntered = FALSE
    /\ mergeCalls = 0
    /\ dropCalls = {}
    /\ dropFailed = {}
    /\ copied = {}
    /\ merged = {}
    /\ flushStart = NoDetails
    /\ maxMerged = [id \in Ids |-> 0]
    /\ finalBefore = EmptyBag
    /\ NoClient
    /\ NoNames
    /\ NoJson
    /\ NoFields
    /\ NoWorker
    /\ NoBackfill
    /\ NoTwoRuns
    /\ NoQueue
    /\ NoWorkflow
    /\ pc = "converting"
    /\ legacy_metrics \in MetricLists
    /\ original_metrics = legacy_metrics
    /\ new_structure = <<>>
    /\ index = 0

convertFrame ==
    UNCHANGED <<model, source, final0, finalExists, finalUnique, final, stageExists,
                stage, attempt, cpc, details, heartbeat, todo, buffer,
                stageEntered, mergeCalls, dropCalls, dropFailed, copied, merged,
                flushStart, maxMerged, finalBefore, clientVars, nameVars, jsonVars,
                fieldVars, queueVars, workflowVars, twoRunsVars, backfillVars,
                workerVars>>

\* Lines 14-29: one turn of the loop on an ExperimentFunnelsQuery.
ConvertFunnel ==
    /\ pc = "converting"
    /\ index < Len(legacy_metrics)
    /\ LET legacy_metric == legacy_metrics[index + 1]
           steps == legacy_metric["funnels_query"]["series"]
           series == [i \in DOMAIN steps |-> step_copy(steps[i])]
           new_metric == [kind |-> "ExperimentMetric", series |-> series,
                          metric_type |-> "funnel"]
       IN  /\ legacy_metric["kind"] = "ExperimentFunnelsQuery"
           /\ new_structure' =
                Append(new_structure, with_metric_name(new_metric, legacy_metric))
    /\ index' = index + 1
    /\ UNCHANGED <<pc, error, legacy_metrics, original_metrics>>
    /\ convertFrame

\* Lines 14-15 and 31-47: one turn of the loop on an ExperimentTrendsQuery.
\* Line 32 raises IndexError when the series is empty.
ConvertTrends ==
    /\ pc = "converting"
    /\ index < Len(legacy_metrics)
    /\ LET legacy_metric == legacy_metrics[index + 1]
           series == legacy_metric["count_query"]["series"]
       IN  /\ legacy_metric["kind"] = "ExperimentTrendsQuery"
           /\ IF series = <<>>
              THEN /\ pc' = "raised"
                   /\ error' = "IndexError"
                   /\ UNCHANGED <<legacy_metrics, new_structure, index>>
              ELSE LET item == source_after_deletes(series[1])
                       new_metric == [kind |-> "ExperimentMetric", source |-> item,
                                      metric_type |-> "mean"]
                   IN  /\ new_structure' =
                            Append(new_structure,
                                   with_metric_name(new_metric, legacy_metric))
                       /\ legacy_metrics' =
                            IF source_is_copy THEN legacy_metrics
                            ELSE [legacy_metrics EXCEPT
                                    ![index + 1]["count_query"]["series"][1] = item]
                       /\ index' = index + 1
                       /\ UNCHANGED <<pc, error>>
    /\ UNCHANGED original_metrics
    /\ convertFrame

\* Lines 14-15 and 31: a legacy metric of another kind; neither branch runs.
SkipMetric ==
    /\ pc = "converting"
    /\ index < Len(legacy_metrics)
    /\ legacy_metrics[index + 1]["kind"]
            \notin {"ExperimentFunnelsQuery", "ExperimentTrendsQuery"}
    /\ index' = index + 1
    /\ UNCHANGED <<pc, error, legacy_metrics, original_metrics, new_structure>>
    /\ convertFrame

\* Line 49: the loop is over and the list is returned.
ReturnNewStructure ==
    /\ pc = "converting"
    /\ index = Len(legacy_metrics)
    /\ pc' = "returned"
    /\ UNCHANGED <<error, convertVars>>
    /\ convertFrame

NextConvert ==
    \/ ConvertFunnel
    \/ ConvertTrends
    \/ SkipMetric
    \/ ReturnNewStructure

SpecConvert == InitConvert /\ [][NextConvert]_vars

----------------------------------------------------------------------------
\* Properties of convert_legacy_metric (SpecConvert).

\* A dict without some keys.
Without(d, keys) == [key \in DOMAIN d \ keys |-> d[key]]

\* The legacy metrics of the two kinds the function converts, in input order.
Converted(metrics) ==
    SelectSeq(metrics,
              LAMBDA m : m["kind"] \in {"ExperimentFunnelsQuery", "ExperimentTrendsQuery"})

\* The ExperimentMetric the claim describes for one legacy metric.
ClaimedMetric(m) ==
    LET metric ==
            IF m["kind"] = "ExperimentFunnelsQuery"
            THEN [kind |-> "ExperimentMetric", metric_type |-> "funnel",
                  series |-> [i \in DOMAIN m["funnels_query"]["series"] |->
                                Without(m["funnels_query"]["series"][i], {"name"})]]
            ELSE LET first == m["count_query"]["series"][1]
                 IN  [kind |-> "ExperimentMetric", metric_type |-> "mean",
                      source |-> Without(first,
                                         {"math_property_type"} \cup
                                         IF "math" \in DOMAIN first THEN {} ELSE {"name"})]
    IN  IF "name" \in DOMAIN m /\ m["name"] \notin {"None", ""}
        THEN [key \in DOMAIN metric \cup {"name"} |->
                IF key = "name" THEN m["name"] ELSE metric[key]]
        ELSE metric

\* C35: the input list is never changed, and the list returned holds, in
\* input order, the ExperimentMetric of every funnels and trends metric and
\* nothing for a metric of another kind.
C35_ConvertsInOrderWithoutMutation ==
    /\ legacy_metrics = original_metrics
    /\ (pc = "returned") =>
            new_structure = [i \in DOMAIN Converted(original_metrics) |->
                                ClaimedMetric(Converted(original_metrics)[i])]

\* The function returned one metric for a list of a trends metric, whose
\* first series item had a name and a math_property_type but no math, and
\* a metric of another kind.
C35_Witness ==
    /\ pc = "returned"
    /\ Len(original_metrics) = 2
    /\ original_metrics[1]["kind"] = "ExperimentTrendsQuery"
    /\ original_metrics[1]["count_query"]["series"] # <<>>
    /\ DOMAIN original_metrics[1]["count_query"]["series"][1]
            = {"event", "name", "math_property_type"}
    /\ original_metrics[2]["kind"] = "ExperimentMetric"
    /\ Len(new_structure) = 1
    /\ DOMAIN new_structure[1]["source"] = {"event"}

====
